---- MODULE Spec2Model ----
(***************************************************************************)
(* Verification model of split-elm-bundle.                                 *)
(*                                                                         *)
(*   SpecPlan   the split planner, transformStateForSplitMode1             *)
(*              (src/src/types/public.d.ts, the split-esm.mjs part)        *)
(*   SpecDeps   the reachability resolver, getDependenciesOf               *)
(*              (src/src/dependency-graph.mjs)                             *)
(*   SpecGraph  the dependency graph builder,                              *)
(*              getDeclarationsAndDependencies / findNeeds                 *)
(*              (src/src/dependency-graph.mjs)                             *)
(*   SpecSplit  whole runs, splitPerProgramWithSingleSharedData:           *)
(*              prepareSplit, convertAndRemoveDeadCode, the chunk          *)
(*              assembler, splitWith1stMode, writeFileAndPrintSizes        *)
(*              (src/unnamed/part_005, src/src/types/public.d.ts,          *)
(*              src/src/convert-iife.mjs, src/src/file-size.mjs)           *)
(*   SpecWrites splitWith1stMode with its file writes in flight            *)
(*              (src/src/types/public.d.ts, src/src/file-size.mjs)         *)
(*                                                                         *)
(* JavaScript Sets are modelled as TLA+ sets, Arrays as sequences, a Map   *)
(* as a function whose DOMAIN is the set of its keys.  Where the order of  *)
(* a Set's elements shows in the output (whole runs), the Set is the list  *)
(* of its elements in insertion order.                                     *)
(***************************************************************************)
EXTENDS Integers, Sequences, FiniteSets, TLC

VARIABLES
    mode,          \* which component this behaviour runs: "plan", "deps", "graph",
                   \* "split", "writes"
    pc,            \* position inside the running function
    \* ---- transformStateForSplitMode1({ programs, shared })
    programs,      \* Array<SplitMode1Program>: records [name, needs, shared]
    shared,        \* the global Set `shared`
    index,         \* the outer loop variable `index` (1-based here)
    bpos,          \* position of `b` in programs (the inner for..of loop)
    planInput,     \* the arguments as they were when the function was called
    \* ---- getDependenciesOf(identifier, { declarations })
    declarations,  \* the Map name -> [name, needs]
    identifier,    \* the seed
    queue,         \* the local `queue`
    result,        \* the local Set `result`
    returned,      \* what the call gave back: [tag |-> "none" | "set" | "map" | "throw", ...]
    \* ---- getDeclarationsAndDependencies(code)
    source,        \* the top-level statements of jsParser.parse(code), in order
    cursor,        \* position of the tree cursor among them (1-based here)
    unnamed,       \* the local Array `unnamed`
    parsed,        \* the local `parsed`, declared outside the loop
    \* ---- splitPerProgramWithSingleSharedData(filePath, effects)
    effects,       \* the SideEffects the caller passed: [writeFiles] (printLogs
                   \* only decides what is logged to stdout and is left out)
    bundle,        \* the compiled bundle read from filePath: [body, table]
    esm,           \* the text convert made of it
    programNodes,  \* the entry table convert read: a list of [name, init]
    sharedOrder,   \* Array.from(shared): the final shared Set in insertion order
    outputs,       \* the locals `sharedFile` and `files` of splitWith1stMode
    files,         \* the file system: file name -> content, of the files written
    writes         \* the calls of writeFileAndPrintSizes that were started, in
                   \* the order they were started: [file, content, stage]

vars == <<mode, pc, programs, shared, index, bpos, planInput,
          declarations, identifier, queue, result, returned,
          source, cursor, unnamed, parsed,
          effects, bundle, esm, programNodes, sharedOrder, outputs, files, writes>>

planVars == <<programs, shared, index, bpos, planInput>>
depsVars == <<declarations, identifier, queue, result, returned>>
graphVars == <<source, cursor, unnamed, parsed>>
splitVars == <<effects, bundle, esm, programNodes, sharedOrder, outputs, files, writes>>

(***************************************************************************)
(* Bounds of the model.                                                    *)
(***************************************************************************)
\* the largest number of programs in one entry table
MaxPrograms == 3
\* the longest `needs` list of one declaration of a dependency map
MaxNeedsLen == 2
\* the largest number of top-level statements of a source text
MaxStatements == 2
\* the largest number of statements in the body of the function `f`
MaxBodyLen == 2

(***************************************************************************)
(* Split planner                                                           *)
(***************************************************************************)

\* const elementsToAlwaysShare = [...]
elementsToAlwaysShare ==
    { "_VirtualDom_divertHrefToApp", "_Platform_initialize", "_Browser_document",
      "_Debugger_document", "_VirtualDom_render" }

\* the names a program's dependency closure is drawn from: ordinary
\* declarations and one name of the forced-share list
PlanNames == { "a", "b", "d", "_VirtualDom_render" }

\* the names the needs of unnamed chunks (the initial `shared`) are drawn from
UnnamedNeedNames == { "d", "_VirtualDom_render" }

\* program names of the entry table, in table order
ProgramNames == << "one", "two", "three", "four", "five" >>

\* programNodes.map(n => ({ name, init, needs: getDependenciesOf(..), shared: new Set() }))
NewSplitProgram(name, needs) == [ name |-> name, needs |-> needs, shared |-> {} ]

\* (the names already shared are left in a.needs)
MoveSharedMutantKeep(a, sh) == a
\* for (const s of shared.values()) { if (a.needs.delete(s)) a.shared.add(s) }
MoveShared(a, sh) ==
    [ a EXCEPT !.needs = a.needs \ sh, !.shared = a.shared \cup (a.needs \cap sh) ]

\* (a promoted name is not added to the global shared set)
PromoteNeedMutantNoGlobal(need, st) ==
    IF need \in st.b.needs
    THEN [ a |-> [ st.a EXCEPT !.shared = @ \cup {need} ],
           b |-> [ st.b EXCEPT !.needs = @ \ {need}, !.shared = @ \cup {need} ],
           shared |-> st.shared ]
    ELSE st
\* (the allowlist test inverted: every name outside the allowlist is forced)
PromoteNeedMutantInvertedAlways(need, st) ==
    LET always == need \notin elementsToAlwaysShare
        s1 == IF always
              THEN [ st EXCEPT !.shared = @ \cup {need},
                               !.a = [ st.a EXCEPT !.shared = @ \cup {need} ] ]
              ELSE st
    IN  IF need \in s1.b.needs
        THEN [ a |-> [ s1.a EXCEPT !.shared = @ \cup {need} ],
               b |-> [ s1.b EXCEPT !.needs = @ \ {need}, !.shared = @ \cup {need} ],
               shared |-> s1.shared \cup {need} ]
        ELSE IF need \in s1.b.shared
             THEN [ s1 EXCEPT !.a = [ s1.a EXCEPT !.shared = @ \cup {need} ] ]
             ELSE s1
\* the body of a.needs.forEach(need => { ... }) for one `need`;
\* st = [a, b, shared] is the state the callback mutates
PromoteNeed(need, st) ==
    LET always == need \in elementsToAlwaysShare
        s1 == IF always
              THEN [ st EXCEPT !.shared = @ \cup {need},
                               !.a = [ st.a EXCEPT !.shared = @ \cup {need} ] ]
              ELSE st
    IN  IF need \in s1.b.needs
        THEN [ a |-> [ s1.a EXCEPT !.shared = @ \cup {need} ],
               b |-> [ s1.b EXCEPT !.needs = @ \ {need}, !.shared = @ \cup {need} ],
               shared |-> s1.shared \cup {need} ]
        ELSE IF need \in s1.b.shared
             THEN [ s1 EXCEPT !.a = [ s1.a EXCEPT !.shared = @ \cup {need} ] ]
             ELSE s1

\* a.needs.forEach(...): a.needs itself is not changed while it is iterated
RECURSIVE ForEachNeed(_, _)
ForEachNeed(todo, st) ==
    IF todo = {} THEN st
    ELSE LET need == CHOOSE n \in todo : TRUE
         IN  ForEachNeed(todo \ {need}, PromoteNeed(need, st))

\* (the final delete is missing)
DeleteSharedFromNeedsMutantSkip(a) == a
\* a.shared.forEach(n => a.needs.delete(n))
DeleteSharedFromNeeds(a) == [ a EXCEPT !.needs = a.needs \ a.shared ]

\* one iteration of `for (let b of programs.slice(index + 1))`
CompareWith(a, b, sh) ==
    LET st == ForEachNeed(a.needs, [ a |-> a, b |-> b, shared |-> sh ])
    IN  [ st EXCEPT !.a = DeleteSharedFromNeeds(st.a) ]

\* for (let index = 0; ...) { const a = programs[index]; for (const s of shared.values()) ... }
OuterStep ==
    /\ mode = "plan" /\ pc = "outer"
    /\ index <= Len(programs)
    /\ programs' = [ programs EXCEPT ![index] = MoveShared(programs[index], shared) ]
    /\ bpos' = index + 1
    /\ pc' = "inner"
    /\ UNCHANGED <<mode, shared, index, planInput>>
    /\ UNCHANGED depsVars
    /\ UNCHANGED graphVars
    /\ UNCHANGED splitVars

\* for (let b of programs.slice(index + 1)) { a.needs.forEach(...); a.shared.forEach(...) }
InnerStep ==
    /\ mode = "plan" /\ pc = "inner"
    /\ bpos <= Len(programs)
    /\ LET st == CompareWith(programs[index], programs[bpos], shared)
       IN  /\ programs' = [ programs EXCEPT ![index] = st.a, ![bpos] = st.b ]
           /\ shared' = st.shared
    /\ bpos' = bpos + 1
    /\ UNCHANGED <<mode, pc, index, planInput>>
    /\ UNCHANGED depsVars
    /\ UNCHANGED graphVars
    /\ UNCHANGED splitVars

\* the inner loop is exhausted: index++
InnerDone ==
    /\ mode = "plan" /\ pc = "inner"
    /\ bpos > Len(programs)
    /\ index' = index + 1
    /\ pc' = "outer"
    /\ UNCHANGED <<mode, programs, shared, bpos, planInput>>
    /\ UNCHANGED depsVars
    /\ UNCHANGED graphVars
    /\ UNCHANGED splitVars

\* index < programs.length fails: the function returns
PlanReturn ==
    /\ mode = "plan" /\ pc = "outer"
    /\ index > Len(programs)
    /\ pc' = "done"
    /\ UNCHANGED <<mode, programs, shared, index, bpos, planInput>>
    /\ UNCHANGED depsVars
    /\ UNCHANGED graphVars
    /\ UNCHANGED splitVars

\* splitWith1stMode builds the planner's arguments: two or more programs (the
\* caller dispatches one program to the single-module path), every program's
\* `shared` a new empty Set, `shared` the needs of the unnamed chunks
InitPlan ==
    /\ mode = "plan" /\ pc = "outer"
    /\ \E n \in 2..MaxPrograms :
         \E needsOf \in [ 1..n -> SUBSET PlanNames ] :
            programs = [ i \in 1..n |-> NewSplitProgram(ProgramNames[i], needsOf[i]) ]
    /\ shared \in SUBSET UnnamedNeedNames
    /\ index = 1 /\ bpos = 1
    /\ planInput = [ programs |-> programs, shared |-> shared ]
    /\ declarations = << >> /\ identifier = "" /\ queue = << >>
    /\ result = {} /\ returned = [ tag |-> "none" ]
    /\ source = << >> /\ cursor = 0 /\ unnamed = << >> /\ parsed = [ kind |-> "null" ]
    /\ effects = [ writeFiles |-> FALSE ] /\ programNodes = << >>
    /\ bundle = [ body |-> << >>, table |-> << >> ] /\ esm = ""
    /\ sharedOrder = << >> /\ outputs = [ shared |-> << >>, programs |-> << >> ]
    /\ files = << >> /\ writes = << >>

NextPlan == OuterStep \/ InnerStep \/ InnerDone \/ PlanReturn

SpecPlan == InitPlan /\ [][NextPlan]_vars

\* the whole call as one function of its arguments: the loops above, run to
\* the end ({ programs, shared } after the call)
RECURSIVE PlanInner(_, _, _, _)
PlanInner(progs, sh, i, j) ==
    IF j > Len(progs) THEN [ programs |-> progs, shared |-> sh ]
    ELSE LET st == CompareWith(progs[i], progs[j], sh)
         IN  PlanInner([ progs EXCEPT ![i] = st.a, ![j] = st.b ], st.shared, i, j + 1)

RECURSIVE PlanOuter(_, _, _)
PlanOuter(progs, sh, i) ==
    IF i > Len(progs) THEN [ programs |-> progs, shared |-> sh ]
    ELSE LET moved == [ progs EXCEPT ![i] = MoveShared(progs[i], sh) ]
             after == PlanInner(moved, sh, i, i + 1)
         IN  PlanOuter(after.programs, after.shared, i + 1)

transformStateForSplitMode1(data) == PlanOuter(data.programs, data.shared, 1)

(***************************************************************************)
(* Reachability resolver: getDependenciesOf                                *)
(***************************************************************************)

\* the names the declarations of a dependency map are drawn from
DeclNames == { "x", "y", "z" }

\* the sequences over S of length at most n (the possible `needs` arrays)
SeqsUpTo(S, n) == UNION { [ 1..k -> S ] : k \in 0..n }

\* declarations.set(name, { name, needs, startIndex, endIndex }): every
\* Declaration is stored under its own name
DependencyMaps ==
    UNION { [ dom -> SeqsUpTo(DeclNames, MaxNeedsLen) ] : dom \in SUBSET DeclNames }
Declaration(name, needs) == [ name |-> name, needs |-> needs ]

\* (an identifier without a declaration is dropped from the queue)
VisitIdMutantSkipUnknown(id, res, q) ==
    IF id \in res \/ id \notin DOMAIN declarations
    THEN [ thrown |-> FALSE, result |-> res, queue |-> q ]
    ELSE [ thrown |-> FALSE,
           result |-> res \cup { declarations[id].name },
           queue |-> q \o declarations[id].needs ]
\* (an identifier that is in the result already goes back to the queue)
VisitIdMutantRequeue(id, res, q) ==
    IF id \in res
    THEN [ thrown |-> FALSE, result |-> res, queue |-> Append(q, id) ]
    ELSE IF id \notin DOMAIN declarations
         THEN [ thrown |-> TRUE, result |-> res, queue |-> q ]
         ELSE [ thrown |-> FALSE,
                result |-> res \cup { declarations[id].name },
                queue |-> q \o declarations[id].needs ]
\* the body of the do..while loop after `const id = queue.shift()`; q is the
\* queue after the shift
VisitId(id, res, q) ==
    IF id \in res
    THEN [ thrown |-> FALSE, result |-> res, queue |-> q ]
    ELSE IF id \notin DOMAIN declarations
         THEN [ thrown |-> TRUE, result |-> res, queue |-> q ]
         ELSE [ thrown |-> FALSE,
                result |-> res \cup { declarations[id].name },
                queue |-> q \o declarations[id].needs ]

\* (the seed is left in the result)
FinishResultMutantKeepSeed(res, seed) == res
\* result.delete(identifier); return result
FinishResult(res, seed) == res \ { seed }

\* one iteration of do { ... } while (queue.length > 0) that does not throw.
\* `if (!id) break` never breaks here: the queue is not empty when the body
\* runs and no identifier is the empty string
DepsIterate ==
    /\ mode = "deps" /\ pc = "loop"
    /\ queue # << >> /\ Head(queue) # ""
    /\ LET st == VisitId(Head(queue), result, Tail(queue))
       IN  /\ ~st.thrown
           /\ result' = st.result
           /\ queue' = st.queue
           /\ pc' = IF st.queue = << >> THEN "exit" ELSE "loop"
    /\ UNCHANGED <<mode, declarations, identifier, returned>>
    /\ UNCHANGED planVars
    /\ UNCHANGED graphVars
    /\ UNCHANGED splitVars

\* throw new Error(`Unknown identifier '${id}'`)
DepsThrow ==
    /\ mode = "deps" /\ pc = "loop"
    /\ queue # << >> /\ Head(queue) # ""
    /\ LET st == VisitId(Head(queue), result, Tail(queue))
       IN  /\ st.thrown
           /\ returned' = [ tag |-> "throw", unknown |-> Head(queue) ]
    /\ pc' = "done"
    /\ UNCHANGED <<mode, declarations, identifier, queue, result>>
    /\ UNCHANGED planVars
    /\ UNCHANGED graphVars
    /\ UNCHANGED splitVars

\* the loop is left: result.delete(identifier); return result
DepsReturn ==
    /\ mode = "deps" /\ pc = "exit"
    /\ result' = FinishResult(result, identifier)
    /\ returned' = [ tag |-> "set", value |-> result' ]
    /\ pc' = "done"
    /\ UNCHANGED <<mode, declarations, identifier, queue>>
    /\ UNCHANGED planVars
    /\ UNCHANGED graphVars
    /\ UNCHANGED splitVars

\* a call getDependenciesOf(identifier, { declarations }): const result = new
\* Set(); let queue = [identifier]
InitDeps ==
    /\ mode = "deps" /\ pc = "loop"
    /\ \E m \in DependencyMaps :
          declarations = [ n \in DOMAIN m |-> Declaration(n, m[n]) ]
    /\ identifier \in DeclNames
    /\ queue = << identifier >>
    /\ result = {}
    /\ returned = [ tag |-> "none" ]
    /\ programs = << >> /\ shared = {} /\ index = 0 /\ bpos = 0
    /\ planInput = [ programs |-> << >>, shared |-> {} ]
    /\ source = << >> /\ cursor = 0 /\ unnamed = << >> /\ parsed = [ kind |-> "null" ]
    /\ effects = [ writeFiles |-> FALSE ] /\ programNodes = << >>
    /\ bundle = [ body |-> << >>, table |-> << >> ] /\ esm = ""
    /\ sharedOrder = << >> /\ outputs = [ shared |-> << >>, programs |-> << >> ]
    /\ files = << >> /\ writes = << >>

NextDeps == DepsIterate \/ DepsThrow \/ DepsReturn

SpecDeps == InitDeps /\ [][NextDeps]_vars

\* the call runs on: getDependenciesOf is one synchronous loop, nothing else
\* has to take a step for its next statement to run
SpecDepsFair == SpecDeps /\ WF_vars(NextDeps)

(***************************************************************************)
(* Syntax trees: what jsParser.parse (tree-sitter-javascript, an external  *)
(* collaborator) gives the builder.  A node is a record                    *)
(*   [type, text, named, children, startIndex, endIndex];                  *)
(* anonymous tokens ('{', ';', 'var', ...) are children like any other,    *)
(* as in tree-sitter, and `named` tells them apart (node.namedChildren).   *)
(***************************************************************************)
Leaf(type, text, named) ==
    [ type |-> type, text |-> text, named |-> named, children |-> << >>,
      startIndex |-> 0, endIndex |-> 0 ]
Inner(type, children) ==
    [ type |-> type, text |-> "", named |-> TRUE, children |-> children,
      startIndex |-> 0, endIndex |-> 0 ]
Tok(t) == Leaf(t, t, FALSE)
Identifier(x) == Leaf("identifier", x, TRUE)
PropertyIdentifier(x) == Leaf("property_identifier", x, TRUE)
ShorthandPropertyIdentifier(x) == Leaf("shorthand_property_identifier", x, TRUE)
True == Leaf("true", "true", TRUE)
Number(n) == Leaf("number", n, TRUE)

\* e1 , e2 , ... (a list with its ',' tokens)
RECURSIVE CommaSeparated(_)
CommaSeparated(nodes) ==
    IF Len(nodes) <= 1 THEN nodes
    ELSE << Head(nodes), Tok(",") >> \o CommaSeparated(Tail(nodes))

ParenthesizedExpression(e) == Inner("parenthesized_expression", << Tok("("), e, Tok(")") >>)
Arguments(args) == Inner("arguments", << Tok("(") >> \o CommaSeparated(args) \o << Tok(")") >>)
CallExpression(fn, args) == Inner("call_expression", << fn, Arguments(args) >>)
MemberExpression(obj, prop) ==
    Inner("member_expression", << obj, Tok("."), PropertyIdentifier(prop) >>)
Object(members) == Inner("object", << Tok("{") >> \o CommaSeparated(members) \o << Tok("}") >>)
FormalParameters(names) ==
    Inner("formal_parameters",
          << Tok("(") >> \o CommaSeparated([ k \in 1..Len(names) |-> Identifier(names[k]) ])
                        \o << Tok(")") >>)
StatementBlock(stmts) == Inner("statement_block", << Tok("{") >> \o stmts \o << Tok("}") >>)
VariableDeclarator(name, value) ==
    Inner("variable_declarator", << Identifier(name), Tok("="), value >>)
VariableDeclaratorNoValue(name) == Inner("variable_declarator", << Identifier(name) >>)
VariableDeclaration(declarators) ==
    Inner("variable_declaration",
          << Tok("var") >> \o CommaSeparated(declarators) \o << Tok(";") >>)
FunctionDeclaration(name, params, stmts) ==
    Inner("function_declaration",
          << Tok("function"), Identifier(name), FormalParameters(params),
             StatementBlock(stmts) >>)
FunctionExpression(params, stmts) ==
    Inner("function", << Tok("function"), FormalParameters(params), StatementBlock(stmts) >>)
IfStatement(cond, stmts) ==
    Inner("if_statement",
          << Tok("if"), ParenthesizedExpression(cond), StatementBlock(stmts) >>)
ReturnStatement(e) == Inner("return_statement", << Tok("return"), e, Tok(";") >>)
ExpressionStatement(e) == Inner("expression_statement", << e, Tok(";") >>)
CatchClause(param, stmts) ==
    Inner("catch_clause",
          << Tok("catch"), Tok("("), Identifier(param), Tok(")"), StatementBlock(stmts) >>)
TryStatement(stmts, param, handler) ==
    Inner("try_statement", << Tok("try"), StatementBlock(stmts), CatchClause(param, handler) >>)
AssignmentExpression(left, right) ==
    Inner("assignment_expression", << left, Tok("="), right >>)
ExportDefault(e) == Inner("export_statement", << Tok("export"), Tok("default"), e, Tok(";") >>)
ExportConst(name, value) ==
    Inner("export_statement",
          << Tok("export"),
             Inner("lexical_declaration",
                   << Tok("const"), VariableDeclarator(name, value), Tok(";") >>) >>)
ClassDeclaration(name) ==
    Inner("class_declaration",
          << Tok("class"), Identifier(name), Inner("class_body", << Tok("{"), Tok("}") >>) >>)

\* node.namedChildren
namedChildren(node) == SelectSeq(node.children, LAMBDA c : c.named)

\* node.text: the source text the node spans (tokens separated by one blank)
RECURSIVE TextOf(_)
RECURSIVE TextOfAll(_)
TextOfAll(nodes) ==
    IF nodes = << >> THEN ""
    ELSE IF Len(nodes) = 1 THEN TextOf(nodes[1])
         ELSE TextOf(nodes[1]) \o " " \o TextOfAll(Tail(nodes))
TextOf(node) == IF node.children = << >> THEN node.text ELSE TextOfAll(node.children)

(***************************************************************************)
(* Dependency graph builder: findNeeds and its helpers                     *)
(*                                                                         *)
(* A scope (DeclarationsInScope) is the chain of its frames, outermost     *)
(* first: scope[Len(scope)] is scope.declarations, Front(scope) is         *)
(* scope.parentScope.  The functions push into the frames they are given,  *)
(* so each returns, beside its value, the scope as it left it:             *)
(*   [ok, error, needs, scope] (ok = FALSE: the function threw `error`).   *)
(***************************************************************************)
Returns(needs, scope) == [ ok |-> TRUE, error |-> "", needs |-> needs, scope |-> scope ]
Throws(error, scope) == [ ok |-> FALSE, error |-> error, needs |-> << >>, scope |-> scope ]

\* sequencing of two steps: an exception of the first step ends the caller,
\* otherwise the caller goes on with the first step's value
Bind(r, K(_)) == IF r.ok THEN K(r) ELSE Throws(r.error, r.scope)

Front(seq) == SubSeq(seq, 1, Len(seq) - 1)

\* function newScope(parentScope = undefined, declarations = [])
newScope(parentScope, decls) == Append(parentScope, decls)
\* what a callee that got newScope(scope, ..) leaves of the caller's scope
LeaveScope(r) == [ r EXCEPT !.scope = Front(r.scope) ]
\* scope.declarations.push(name)
PushDeclaration(scope, name) == [ scope EXCEPT ![Len(scope)] = @ \cup { name } ]

\* the switch at the end of isDeclaredInScope
AmbientGlobals ==
    { "Array", "console", "document", "DataView", "Error", "File", "FileList",
      "Object", "Math", "String", "window" }

RECURSIVE isDeclaredInScope(_, _)
isDeclaredInScope(id, scope) ==
    IF id \in scope[Len(scope)] THEN TRUE
    ELSE IF Len(scope) > 1 THEN isDeclaredInScope(id, Front(scope))
         ELSE id \in AmbientGlobals

wrapIdentifier(id, scope) == IF isDeclaredInScope(id, scope) THEN << >> ELSE << id >>

\* the node types findNeeds answers with node.children.flatMap(findNeeds)
ChildrenFlatMapTypes ==
    { "object", "array", "pair", "augmented_assignment_expression",
      "assignment_expression", "call_expression", "sequence_expression",
      "member_expression", "do_statement", "while_statement", "expression_statement",
      "update_expression", "new_expression", "subscript_expression",
      "unary_expression", "binary_expression", "ternary_expression", "switch_body",
      "switch_case", "switch_default", "throw_statement" }

\* the node types findNeeds answers with []
NoNeedsTypes ==
    { "{", "}", ";", ":", "&&", "||", "|", "[", "]", "?", ",", ".", "=", "+=", "-=",
      "++", "--", "+", "-", "*", "/", "%", "!", "!=", "!==", "==", "===", "<", ">",
      "<=", ">=", "true", "false", "null", "undefined", "regex", "break_statement",
      "continue_statement", "number", "string", "do", "while", "for", "new", "case",
      "throw", "typeof", "instanceof", "in", "default", "comment",
      "property_identifier" }

\* case 'shorthand_property_identifier': return [node.text]
ShorthandNeeds(node, scope) == << node.text >>

\* the names of the identifiers among the formal parameters
formalParameterNames(params) ==
    LET ids == SelectSeq(namedChildren(params), LAMBDA n : n.type = "identifier")
    IN  { ids[k].text : k \in 1..Len(ids) }

RECURSIVE findNeeds(_, _)
RECURSIVE flatMapFindNeeds(_, _)
RECURSIVE findNeedsOfChild(_, _, _)
RECURSIVE parseVariableDeclarations(_, _)
RECURSIVE parseVariableDeclarationChildren(_, _, _, _)
RECURSIVE parseFunctionDeclaration(_, _)
RECURSIVE findNeedsInStatementBlock(_, _)
RECURSIVE findNeedsInForStatement(_, _)
RECURSIVE forStatementChildren(_, _, _)
RECURSIVE findNeedsInForInStatement(_, _)

\* nodes.flatMap(n => findNeeds(n, scope))
flatMapFindNeeds(nodes, scope) ==
    IF nodes = << >> THEN Returns(<< >>, scope)
    ELSE Bind(findNeeds(Head(nodes), scope), LAMBDA first :
         Bind(flatMapFindNeeds(Tail(nodes), first.scope), LAMBDA rest :
         Returns(first.needs \o rest.needs, rest.scope)))

\* findNeeds(node.children[i], scope), i counted from 0 as in the source; a
\* missing child is undefined, and reading its type throws a TypeError
findNeedsOfChild(node, i, scope) ==
    IF i + 1 > Len(node.children) THEN Throws("TypeError", scope)
    ELSE findNeeds(node.children[i + 1], scope)

\* (the loop without scope.declarations.push(identifier.text): an initializer
\* does not see the names of the pairs before it)
RECURSIVE parseVariableDeclarationChildrenMutantNoPush(_, _, _, _)
parseVariableDeclarationChildrenMutantNoPush(nodes, names, needs, scope) ==
    IF nodes = << >>
    THEN [ ok |-> TRUE, error |-> "", names |-> names, needs |-> needs, scope |-> scope ]
    ELSE LET child == Head(nodes)
         IN  IF child.type \in { "var", ",", ";" }
             THEN parseVariableDeclarationChildrenMutantNoPush(Tail(nodes), names,
                                                              needs, scope)
             ELSE IF child.type = "variable_declarator"
             THEN Bind(IF Len(child.children) >= 3
                       THEN findNeeds(child.children[3], scope)
                       ELSE Returns(<< >>, scope),
                       LAMBDA value :
                       parseVariableDeclarationChildrenMutantNoPush(Tail(nodes),
                           Append(names, child.children[1].text),
                           needs \o value.needs, value.scope))
             ELSE Throws("TODO parseVariableDeclaration", scope)

\* the loop of parseVariableDeclarations over the children that are left, with
\* the names and needs collected so far: [ok, error, names, needs, scope]
parseVariableDeclarationChildren(nodes, names, needs, scope) ==
    IF nodes = << >>
    THEN [ ok |-> TRUE, error |-> "", names |-> names, needs |-> needs, scope |-> scope ]
    ELSE LET child == Head(nodes)
         IN  IF child.type \in { "var", ",", ";" }
             THEN parseVariableDeclarationChildren(Tail(nodes), names, needs, scope)
             ELSE IF child.type = "variable_declarator"
             THEN IF child.children[1].type # "identifier"
                  THEN Throws("AssertionError", scope)
                  ELSE LET name == child.children[1].text
                           pushed == PushDeclaration(scope, name)
                       IN  Bind(IF Len(child.children) >= 3
                                THEN findNeeds(child.children[3], pushed)
                                ELSE Returns(<< >>, pushed),
                                LAMBDA value :
                                parseVariableDeclarationChildren(Tail(nodes),
                                    Append(names, name), needs \o value.needs,
                                    value.scope))
             ELSE Throws("TODO parseVariableDeclaration", scope)

\* function parseVariableDeclarations(node, scope): [ok, error, names, needs, scope]
\* (a returned Error and a thrown one both end the build: ok = FALSE)
parseVariableDeclarations(node, scope) ==
    parseVariableDeclarationChildren(node.children, << >>, << >>, scope)

\* function parseFunctionDeclaration(node, scope): [ok, error, name, needs, scope]
parseFunctionDeclaration(node, scope) ==
    IF \/ Len(node.children) # 4
       \/ node.children[1].type # "function"
       \/ node.children[2].type # "identifier"
       \/ node.children[3].type # "formal_parameters"
       \/ node.children[4].type # "statement_block"
    THEN Throws("Invalid shape for a function_declaration", scope)
    ELSE LET name == node.children[2].text
         IN  Bind(LeaveScope(findNeeds(node.children[4],
                      newScope(PushDeclaration(scope, name),
                               formalParameterNames(node.children[3])))),
                  LAMBDA body :
                  [ ok |-> TRUE, error |-> "", name |-> name, needs |-> body.needs,
                    scope |-> body.scope ])

\* function findNeedsInStatementBlock(node, parentScope)
findNeedsInStatementBlock(node, parentScope) ==
    IF node.type # "statement_block" THEN Throws("AssertionError", parentScope)
    ELSE LeaveScope(flatMapFindNeeds(node.children, newScope(parentScope, {})))

\* the loop of findNeedsInForStatement over the children that are left, with
\* the needs collected so far; scope is the for statement's own scope (its
\* last frame) on top of parentScope
forStatementChildren(nodes, needs, scope) ==
    IF nodes = << >> THEN Returns(needs, scope)
    ELSE LET child == Head(nodes)
             rest == Tail(nodes)
         IN  IF child.type \in { "for", "(", "empty_statement", ")", "{", "}", "comment" }
             THEN forStatementChildren(rest, needs, scope)
             ELSE IF child.type = "variable_declaration"
             THEN Bind(parseVariableDeclarations(child, Front(scope)), LAMBDA newVar :
                  forStatementChildren(rest, needs \o newVar.needs,
                      Append(newVar.scope, scope[Len(scope)])))
             ELSE IF child.type \in { "subscript_expression", "expression_statement",
                                      "update_expression", "assignment_expression",
                                      "sequence_expression" }
             THEN Bind(findNeeds(child, scope), LAMBDA r :
                  forStatementChildren(rest, needs \o r.needs, r.scope))
             ELSE IF child.type = "statement_block"
             THEN Bind(findNeedsInStatementBlock(child, scope), LAMBDA r :
                  forStatementChildren(rest, needs \o r.needs, r.scope))
             ELSE Throws("unsupported node type in for statement", scope)

\* function findNeedsInForStatement(node, parentScope)
findNeedsInForStatement(node, parentScope) ==
    Bind(forStatementChildren(node.children, << >>, newScope(parentScope, {})),
         LAMBDA r :
         Returns(SelectSeq(r.needs, LAMBDA need : need \notin r.scope[Len(r.scope)]),
                 Front(r.scope)))

\* function findNeedsInForInStatement(node, parentScope):
\* for ( var <identifier> in <expression> ) <statement_block>
findNeedsInForInStatement(node, parentScope) ==
    LET c == node.children
    IN  IF \/ Len(c) # 8
           \/ c[1].type # "for" \/ c[2].type # "(" \/ c[3].type # "var"
           \/ c[4].type # "identifier" \/ c[5].type # "in"
           \/ c[7].type # ")" \/ c[8].type # "statement_block"
        THEN Throws("AssertionError", parentScope)
        ELSE Bind(findNeeds(c[6], newScope(parentScope, { c[4].text })),
                  LAMBDA iterable :
             Bind(findNeedsInStatementBlock(c[8], iterable.scope), LAMBDA body :
             Returns(iterable.needs \o body.needs, Front(body.scope))))

\* function findNeeds(node, scope)
findNeeds(node, scope) ==
    CASE node.type = "function_declaration" ->
            Bind(parseFunctionDeclaration(node, scope), LAMBDA decl :
            Returns(decl.needs, decl.scope))
      [] node.type = "function" ->
            IF \/ Len(node.children) < 3
               \/ node.children[2].type # "formal_parameters"
               \/ node.children[3].type # "statement_block"
            THEN Throws("AssertionError", scope)
            ELSE LeaveScope(findNeeds(node.children[3],
                     newScope(scope, formalParameterNames(node.children[2]))))
      [] node.type = "arguments" -> flatMapFindNeeds(namedChildren(node), scope)
      [] node.type = "parenthesized_expression" -> findNeedsOfChild(node, 1, scope)
      [] node.type = "if_statement" -> flatMapFindNeeds(namedChildren(node), scope)
      [] node.type = "else_clause" -> findNeedsOfChild(node, 1, scope)
      [] node.type = "for_statement" -> findNeedsInForStatement(node, scope)
      [] node.type = "for_in_statement" -> findNeedsInForInStatement(node, scope)
      [] node.type = "variable_declaration" ->
            Bind(parseVariableDeclarations(node, scope), LAMBDA decls :
            Returns(decls.needs, decls.scope))
      [] node.type = "variable_declarator" ->
            IF Len(node.children) # 3 \/ node.children[1].type # "identifier"
            THEN Throws("Unexpected shape of variable_declarator node", scope)
            ELSE LeaveScope(findNeeds(node.children[3],
                     newScope(scope, { node.children[1].text })))
      [] node.type = "identifier" -> Returns(wrapIdentifier(node.text, scope), scope)
      [] node.type = "labeled_statement" ->
            IF node.children[1].type # "statement_identifier"
            THEN Throws("AssertionError", scope)
            ELSE LeaveScope(findNeedsOfChild(node, 2, newScope(scope, {})))
      [] node.type = "return_statement" -> findNeedsOfChild(node, 1, scope)
      [] node.type = "try_statement" ->
            IF Len(node.children) < 2 THEN Throws("TypeError", scope)
            ELSE LeaveScope(findNeedsInStatementBlock(node.children[2], newScope(scope, {})))
      [] node.type = "statement_block" -> findNeedsInStatementBlock(node, scope)
      [] node.type = "switch_statement" ->
            IF \/ Len(node.children) < 3
               \/ node.children[2].type # "parenthesized_expression"
               \/ node.children[3].type # "switch_body"
            THEN Throws("AssertionError", scope)
            ELSE Bind(findNeeds(node.children[2], scope), LAMBDA discriminant :
                 Bind(LeaveScope(findNeeds(node.children[3],
                          newScope(discriminant.scope, {}))),
                      LAMBDA body :
                 Returns(discriminant.needs \o body.needs, body.scope)))
      [] node.type \in ChildrenFlatMapTypes -> flatMapFindNeeds(node.children, scope)
      [] node.type \in NoNeedsTypes -> Returns(<< >>, scope)
      [] node.type = "shorthand_property_identifier" ->
            Returns(ShorthandNeeds(node, scope), scope)
      [] OTHER -> Throws("todo findNeeds", scope)

(***************************************************************************)
(* Dependency graph builder: getDeclarationsAndDependencies                *)
(***************************************************************************)

\* (a named export that does not read its expression)
parseNamedExportMutantNoNeeds(node, scope) ==
    IF \/ Len(node.children) # 2
       \/ node.children[2].type # "lexical_declaration"
    THEN Throws("Unexpected parseNamedExport shape", scope)
    ELSE [ ok |-> TRUE, error |-> "",
           name |-> node.children[2].children[2].children[1].text,
           needs |-> << >>, scope |-> scope ]

\* function parseNamedExport(node, scope): [ok, error, name, needs, scope]
parseNamedExport(node, scope) ==
    IF \/ Len(node.children) # 2
       \/ node.children[1].type # "export"
       \/ node.children[2].type # "lexical_declaration"
    THEN Throws("Unexpected parseNamedExport shape", scope)
    ELSE LET lexicalDeclaration == node.children[2]
         IN  IF \/ Len(lexicalDeclaration.children) < 2
                \/ lexicalDeclaration.children[1].type # "const"
                \/ lexicalDeclaration.children[2].type # "variable_declarator"
                \/ lexicalDeclaration.children[2].children[1].type # "identifier"
             THEN Throws("AssertionError", scope)
             ELSE LET declarator == lexicalDeclaration.children[2]
                  IN  Bind(findNeedsOfChild(declarator, 2, scope), LAMBDA value :
                      [ ok |-> TRUE, error |-> "", name |-> declarator.children[1].text,
                        needs |-> value.needs, scope |-> value.scope ])

\* function parseExport(node, scope): [ok, error, name, needs, scope]
parseExport(node, scope) ==
    IF /\ Len(node.children) >= 2
       /\ node.children[1].type = "export"
       /\ node.children[2].type = "default"
    THEN Bind(findNeedsOfChild(node, 2, scope), LAMBDA value :
         [ ok |-> TRUE, error |-> "", name |-> "defaultExport",
           needs |-> value.needs, scope |-> value.scope ])
    ELSE parseNamedExport(node, scope)

\* the values of the local `parsed`
NullParsed == [ kind |-> "null" ]
\* ParsedDeclarations { names, needs, startIndex, endIndex }
ParsedNames(names, needs, node) ==
    [ kind |-> "names", names |-> names, needs |-> needs,
      startIndex |-> node.startIndex, endIndex |-> node.endIndex ]
\* ParsedDeclaration { name, needs, startIndex, endIndex }
ParsedName(name, needs, node) ==
    [ kind |-> "name", names |-> << name >>, needs |-> needs,
      startIndex |-> node.startIndex, endIndex |-> node.endIndex ]

\* the switch over cursor.nodeType for one top-level statement:
\* [thrown, error, parsed, unnamed]; `was` is the value `parsed` has from the
\* statement before (the try_statement case leaves it alone)
parseTopLevel(node, was, chunks) ==
    LET thrown(error) == [ thrown |-> TRUE, error |-> error, parsed |-> was,
                           unnamed |-> chunks ]
        done(value, all) == [ thrown |-> FALSE, error |-> "", parsed |-> value,
                              unnamed |-> all ]
        try(r, K(_)) == IF r.ok THEN K(r) ELSE thrown(r.error)
    IN  CASE node.type = "variable_declaration" ->
                try(parseVariableDeclarations(node, newScope(<< >>, {})), LAMBDA r :
                    done(ParsedNames(r.names, r.needs, node), chunks))
          [] node.type = "function_declaration" ->
                try(parseFunctionDeclaration(node, newScope(<< >>, {})), LAMBDA r :
                    done(ParsedName(r.name, r.needs, node), chunks))
          [] node.type = "try_statement" ->
                try(findNeeds(node, newScope(<< >>, {})), LAMBDA r :
                    IF Len(r.needs) > 0
                    THEN done(was, Append(chunks,
                                  [ names |-> << >>, needs |-> r.needs,
                                    startIndex |-> node.startIndex,
                                    endIndex |-> node.endIndex ]))
                    ELSE done(was, chunks))
          [] node.type \in { "expression_statement", "comment" } ->
                done(NullParsed, chunks)
          [] node.type = "export_statement" ->
                try(parseExport(node, newScope(<< >>, {})), LAMBDA r :
                    done(ParsedName(r.name, r.needs, node), chunks))
          [] OTHER -> thrown("unknown node type")

\* if (parsed) { for (const name of parsed.names) declarations.set(name, {...});
\*               if ("name" in parsed) declarations.set(parsed.name, parsed) }
setDeclarations(decls, value) ==
    IF value.kind = "null" THEN decls
    ELSE LET names == { value.names[k] : k \in 1..Len(value.names) }
         IN  [ n \in DOMAIN decls \cup names |->
                 IF n \in names
                 THEN [ name |-> n, needs |-> value.needs,
                        startIndex |-> value.startIndex, endIndex |-> value.endIndex ]
                 ELSE decls[n] ]

\* one iteration of do { switch ... } while (cursor.gotoNextSibling())
GraphStatement ==
    /\ mode = "graph" /\ pc = "statement"
    /\ \E r \in { parseTopLevel(source[cursor], parsed, unnamed) } :
           /\ ~r.thrown
           /\ parsed' = r.parsed
           /\ unnamed' = r.unnamed
           /\ declarations' = setDeclarations(declarations, r.parsed)
    /\ IF cursor < Len(source)
       THEN cursor' = cursor + 1 /\ pc' = pc
       ELSE cursor' = cursor /\ pc' = "exit"
    /\ UNCHANGED <<mode, source, identifier, queue, result, returned>>
    /\ UNCHANGED planVars
    /\ UNCHANGED splitVars

\* (the statement that threw is skipped and the loop goes on)
GraphThrowMutantSwallow ==
    /\ mode = "graph" /\ pc = "statement"
    /\ parseTopLevel(source[cursor], parsed, unnamed).thrown
    /\ IF cursor < Len(source)
       THEN cursor' = cursor + 1 /\ pc' = pc
       ELSE cursor' = cursor /\ pc' = "exit"
    /\ UNCHANGED <<mode, source, unnamed, parsed, declarations,
                   identifier, queue, result, returned>>
    /\ UNCHANGED planVars
    /\ UNCHANGED splitVars

\* a statement makes the build throw: catch (ex) { ...; throw ex }
GraphThrow ==
    /\ mode = "graph" /\ pc = "statement"
    /\ \E r \in { parseTopLevel(source[cursor], parsed, unnamed) } :
           /\ r.thrown
           /\ returned' = [ tag |-> "throw", error |-> r.error ]
    /\ pc' = "done"
    /\ UNCHANGED <<mode, source, cursor, unnamed, parsed, declarations,
                   identifier, queue, result>>
    /\ UNCHANGED planVars
    /\ UNCHANGED splitVars

\* return { declarations, unnamed }
GraphReturn ==
    /\ mode = "graph" /\ pc = "exit"
    /\ returned' = [ tag |-> "map", declarations |-> declarations, unnamed |-> unnamed ]
    /\ pc' = "done"
    /\ UNCHANGED <<mode, source, cursor, unnamed, parsed, declarations,
                   identifier, queue, result>>
    /\ UNCHANGED planVars
    /\ UNCHANGED splitVars

(***************************************************************************)
(* The source texts the builder is run on: top-level statements in the     *)
(* shapes the compiled bundles and the tests of the repository use, and a  *)
(* function `f(p)` whose body is any short list of the statements below.   *)
(***************************************************************************)
\* var v = g;
BodyVar == VariableDeclaration(<< VariableDeclarator("v", Identifier("g")) >>)
\* if (p) { var w = p.b; }
BodyIfVar ==
    IfStatement(Identifier("p"),
        << VariableDeclaration(<< VariableDeclarator("w",
                                     MemberExpression(Identifier("p"), "b")) >>) >>)
\* if (true) { h(w, v); }
BodyIfUse ==
    IfStatement(True,
        << ExpressionStatement(CallExpression(Identifier("h"),
                                   << Identifier("w"), Identifier("v") >>)) >>)
\* return { p };
BodyReturnShorthand == ReturnStatement(Object(<< ShorthandPropertyIdentifier("p") >>))
\* function cb(e) { cb(e, g); }
BodyFunction ==
    FunctionDeclaration("cb", << "e" >>,
        << ExpressionStatement(CallExpression(Identifier("cb"),
                                   << Identifier("e"), Identifier("g") >>)) >>)
\* cb(console, p);
BodyCall ==
    ExpressionStatement(CallExpression(Identifier("cb"),
                            << Identifier("console"), Identifier("p") >>))
\* try { var w = g; } catch (e) { h(e); }
BodyTry ==
    TryStatement(<< VariableDeclaration(<< VariableDeclarator("w", Identifier("g")) >>) >>,
                 "e",
                 << ExpressionStatement(CallExpression(Identifier("h"),
                                            << Identifier("e") >>)) >>)

BodyStatements ==
    { BodyVar, BodyIfVar, BodyIfUse, BodyReturnShorthand, BodyFunction, BodyCall, BodyTry }

\* function f(p) { ...body }
FunctionF(body) == FunctionDeclaration("f", << "p" >>, body)

\* var g = F(h);
TopVar ==
    VariableDeclaration(<< VariableDeclarator("g",
                              CallExpression(Identifier("F"), << Identifier("h") >>)) >>)
\* var h = 1, k = h;
TopVarMany ==
    VariableDeclaration(<< VariableDeclarator("h", Number("1")),
                           VariableDeclarator("k", Identifier("h")) >>)
\* var m = F(n), n = m, o = g;
TopVarPairs ==
    VariableDeclaration(<< VariableDeclarator("m",
                              CallExpression(Identifier("F"), << Identifier("n") >>)),
                           VariableDeclarator("n", Identifier("m")),
                           VariableDeclarator("o", Identifier("g")) >>)
\* var k;
TopVarNoValue == VariableDeclaration(<< VariableDeclaratorNoValue("k") >>)
\* try { window.x = g; } catch (e) { }
TopTry ==
    TryStatement(<< ExpressionStatement(AssignmentExpression(
                        MemberExpression(Identifier("window"), "x"), Identifier("g"))) >>,
                 "e", << >>)
\* g.x = h;
TopExpression ==
    ExpressionStatement(AssignmentExpression(MemberExpression(Identifier("g"), "x"),
                                             Identifier("h")))
\* export const Main = { init: f(g) };
TopExportConst ==
    ExportConst("Main",
        Object(<< Inner("pair", << PropertyIdentifier("init"), Tok(":"),
                                   CallExpression(Identifier("f"), << Identifier("g") >>) >>) >>))
\* export default Elm;
TopExportDefault == ExportDefault(Identifier("Elm"))
\* class K { }
TopClass == ClassDeclaration("K")

\* var s = { console };
TopVarShorthand ==
    VariableDeclaration(<< VariableDeclarator("s",
                              Object(<< ShorthandPropertyIdentifier("console") >>)) >>)
\* var t = F(<template string>);
TopVarTemplate ==
    VariableDeclaration(<< VariableDeclarator("t",
                              CallExpression(Identifier("F"),
                                  << Leaf("template_string", "'x'", TRUE) >>)) >>)

OtherStatements ==
    { TopVar, TopVarMany, TopVarNoValue, TopTry, TopExpression, TopExportConst,
      TopExportDefault, TopClass, TopVarShorthand, TopVarTemplate }

\* the statements a source with `var m = F(n), n = m, o = g;` is filled up with
BindingStatements == { TopVar, TopVarMany, TopVarNoValue }

\* stmts with the statement s put after its first `at` statements
InsertAt(stmts, at, s) ==
    SubSeq(stmts, 1, at) \o << s >> \o SubSeq(stmts, at + 1, Len(stmts))

\* node.startIndex / node.endIndex of the top-level statements: the source
\* text is the statements' texts, one per line
RECURSIVE Layout(_, _)
Layout(stmts, offset) ==
    IF stmts = << >> THEN << >>
    ELSE LET end == offset + Len(TextOf(Head(stmts)))
         IN  << [ Head(stmts) EXCEPT !.startIndex = offset, !.endIndex = end ] >>
             \o Layout(Tail(stmts), end + 1)

\* const declarations = new Map(); const unnamed = []; const tree =
\* jsParser.parse(code); cursor.gotoFirstChild(); let parsed = null
\* (code: 1..MaxStatements statements, at most one of them a function `f` or
\* a binding statement with three pairs)
InitGraph ==
    /\ mode = "graph" /\ pc = "statement"
    /\ \/ \E stmts \in SeqsUpTo(OtherStatements, MaxStatements) :
              /\ Len(stmts) >= 1
              /\ source = Layout(stmts, 0)
       \/ \E others \in SeqsUpTo(OtherStatements, MaxStatements - 1),
             body \in SeqsUpTo(BodyStatements, MaxBodyLen) :
              \E at \in 0..Len(others) :
                  source = Layout(InsertAt(others, at, FunctionF(body)), 0)
       \/ \E others \in SeqsUpTo(BindingStatements, MaxStatements - 1) :
              \E at \in 0..Len(others) :
                  source = Layout(InsertAt(others, at, TopVarPairs), 0)
    /\ cursor = 1
    /\ declarations = << >>
    /\ unnamed = << >>
    /\ parsed = NullParsed
    /\ returned = [ tag |-> "none" ]
    /\ identifier = "" /\ queue = << >> /\ result = {}
    /\ programs = << >> /\ shared = {} /\ index = 0 /\ bpos = 0
    /\ planInput = [ programs |-> << >>, shared |-> {} ]
    /\ effects = [ writeFiles |-> FALSE ] /\ programNodes = << >>
    /\ bundle = [ body |-> << >>, table |-> << >> ] /\ esm = ""
    /\ sharedOrder = << >> /\ outputs = [ shared |-> << >>, programs |-> << >> ]
    /\ files = << >> /\ writes = << >>

NextGraph == GraphStatement \/ GraphThrow \/ GraphReturn

SpecGraph == InitGraph /\ [][NextGraph]_vars

(***************************************************************************)
(* Whole runs: texts, convert and the entry table                          *)
(*                                                                         *)
(* A text is a string.  Texts are kept up to white space: the text of a    *)
(* node is its tokens separated by one blank (TextOf), statements stand    *)
(* one per line.  jsParser.parse of a text the program assembled gives     *)
(* back the statements the text was put together from.                     *)
(***************************************************************************)
\* strings.join('\n')
RECURSIVE JoinLines(_)
JoinLines(strings) ==
    IF strings = << >> THEN ""
    ELSE IF Len(strings) = 1 THEN strings[1]
         ELSE strings[1] \o "\n" \o JoinLines(Tail(strings))

\* names.join(', ')
RECURSIVE JoinNames(_)
JoinNames(names) ==
    IF names = << >> THEN ""
    ELSE IF Len(names) = 1 THEN names[1]
         ELSE names[1] \o ", " \o JoinNames(Tail(names))

\* export const ${program.name} = { init: ${program.init.text} };
ProgramExport(program) ==
    ExportConst(program.name,
        Object(<< Inner("pair", << PropertyIdentifier("init"), Tok(":"), program.init >>) >>))
\* export const Elm = { ${programNodes.map(program => program.name).join(', ')} };
ElmExport(nodes) ==
    ExportConst("Elm",
        Object([ k \in 1..Len(nodes) |-> ShorthandPropertyIdentifier(nodes[k].name) ]))

\* the statements of the text exportsToString(programNodes) returns
exportsToStatements(nodes) ==
    [ k \in 1..Len(nodes) |-> ProgramExport(nodes[k]) ]
        \o << ElmExport(nodes), ExportDefault(Identifier("Elm")) >>

\* function exportsToString(programNodes)
exportsToString(nodes) ==
    JoinLines(<< JoinLines([ k \in 1..Len(nodes) |-> TextOf(ProgramExport(nodes[k])) ]),
                 TextOf(ElmExport(nodes)),
                 TextOf(ExportDefault(Identifier("Elm"))) >>)

\* function convert(iife): the compiled bundle is the statements between
\* `function F` and `_Platform_export(` (iife.body) and the entry table
\* passed to _Platform_export (iife.table, read by parsePlatformExport);
\* esm = iife.substring(start, platformExportIndex) + '\n' + exportsToString(programNodes)
convert(iife) ==
    [ esm |-> JoinLines([ k \in 1..Len(iife.body) |-> TextOf(iife.body[k]) ])
                  \o "\n" \o exportsToString(iife.table),
      programNodes |-> iife.table ]

\* jsParser.parse(esm).rootNode.children for the esm of convert(iife)
parseEsm(iife) ==
    LET bodyText == JoinLines([ k \in 1..Len(iife.body) |-> TextOf(iife.body[k]) ])
        programsText ==
            JoinLines([ k \in 1..Len(iife.table) |-> TextOf(ProgramExport(iife.table[k])) ])
    IN  Layout(iife.body, 0)
        \o Layout([ k \in 1..Len(iife.table) |-> ProgramExport(iife.table[k]) ],
                  Len(bodyText) + 1)
        \o Layout(<< ElmExport(iife.table), ExportDefault(Identifier("Elm")) >>,
                  Len(bodyText) + 1 + Len(programsText) + 1)

\* function programNodeNames(programNodes)
programNodeNames(nodes) == [ k \in 1..Len(nodes) |-> nodes[k].name ]

(***************************************************************************)
(* Whole runs: the dependency map and the closures as functions            *)
(***************************************************************************)
\* the loop of getDeclarationsAndDependencies from statement k on:
\* [thrown, error, declarations, unnamed]
WhenParsed(r, K(_)) ==
    IF r.thrown
    THEN [ thrown |-> TRUE, error |-> r.error, declarations |-> << >>, unnamed |-> << >> ]
    ELSE K(r)
RECURSIVE GraphLoop(_, _, _, _, _)
GraphLoop(stmts, k, decls, chunks, was) ==
    IF k > Len(stmts)
    THEN [ thrown |-> FALSE, error |-> "", declarations |-> decls, unnamed |-> chunks ]
    ELSE WhenParsed(parseTopLevel(stmts[k], was, chunks), LAMBDA r :
             GraphLoop(stmts, k + 1, setDeclarations(decls, r.parsed), r.unnamed,
                       r.parsed))

\* function getDeclarationsAndDependencies(code), for the statements of code
getDeclarationsAndDependencies(stmts) == GraphLoop(stmts, 1, << >>, << >>, NullParsed)

\* set.has(x), for a Set kept as the list of its elements in insertion order
SetHas(set, x) == \E k \in 1..Len(set) : set[k] = x
\* set.add(x)
SetAdd(set, x) == IF SetHas(set, x) THEN set ELSE Append(set, x)
\* for (const x of list) set.add(x)
RECURSIVE SetAddAll(_, _)
SetAddAll(set, list) ==
    IF list = << >> THEN set ELSE SetAddAll(SetAdd(set, Head(list)), Tail(list))

\* what a function that may throw gives: its value, or the error it threw
Ok(value) == [ ok |-> TRUE, error |-> "", value |-> value ]
Thrown(error) == [ ok |-> FALSE, error |-> error, value |-> << >> ]
WhenOk(r, K(_)) == IF r.ok THEN K(r) ELSE Thrown(r.error)

\* the do..while loop of getDependenciesOf: [ok, error, value]
RECURSIVE DependenciesLoop(_, _, _)
DependenciesLoop(todo, res, decls) ==
    IF todo = << >> THEN Ok(res)
    ELSE IF SetHas(res, Head(todo)) THEN DependenciesLoop(Tail(todo), res, decls)
    ELSE IF Head(todo) \notin DOMAIN decls
         THEN Thrown("Unknown identifier")
         ELSE DependenciesLoop(Tail(todo) \o decls[Head(todo)].needs,
                               Append(res, decls[Head(todo)].name), decls)

\* function getDependenciesOf(identifier, { declarations }): the Set it
\* returns, in insertion order
getDependenciesOf(id, decls) ==
    WhenOk(DependenciesLoop(<< id >>, << >>, decls), LAMBDA r :
        Ok(SelectSeq(r.value, LAMBDA n : n # id)))

(***************************************************************************)
(* Whole runs: the chunk assembler                                         *)
(***************************************************************************)
\* the keys of the Map `replacements`
ReplacedNames == { "_Browser_requestAnimationFrame", "_Browser_cancelAnimationFrame" }
\* the statement replacements.get(key) is the text of:
\*   var _Browser_requestAnimationFrame = window.requestAnimationFrame.bind(window)
ReplacementStatement(key) ==
    Inner("variable_declaration",
          << Tok("var"),
             VariableDeclarator(key,
                 CallExpression(
                     MemberExpression(
                         MemberExpression(Identifier("window"),
                             IF key = "_Browser_requestAnimationFrame"
                             THEN "requestAnimationFrame" ELSE "cancelAnimationFrame"),
                         "bind"),
                     << Identifier("window") >>)) >>)
\* replacements.get(key); "" stands for undefined
replacements(key) == IF key \in ReplacedNames THEN TextOf(ReplacementStatement(key)) ELSE ""

\* a Chunk: { startIndex, endIndex, needs, replacedContent }
Chunk(value, replacedContent) ==
    [ startIndex |-> value.startIndex, endIndex |-> value.endIndex,
      needs |-> value.needs, replacedContent |-> replacedContent ]

\* function fetchChunksForDependencies(deps, map): Array.from(deps, key => ...)
RECURSIVE fetchChunksForDependencies(_, _)
fetchChunksForDependencies(deps, map) ==
    IF deps = << >> THEN Ok(<< >>)
    ELSE IF Head(deps) \notin DOMAIN map THEN Thrown("Could not find dependency")
    ELSE WhenOk(fetchChunksForDependencies(Tail(deps), map), LAMBDA rest :
             Ok(<< Chunk(map[Head(deps)], replacements(Head(deps))) >> \o rest.value))

\* where sort puts a chunk among chunks already in order: Array.prototype.sort
\* is stable, so behind the chunks that came before it and start where it does
InsertByStartIndex(sorted, chunk) ==
    SelectSeq(sorted, LAMBDA c : c.startIndex <= chunk.startIndex)
        \o << chunk >>
        \o SelectSeq(sorted, LAMBDA c : c.startIndex > chunk.startIndex)

\* array.sort((a, b) => a.startIndex - b.startIndex)
RECURSIVE SortByStartIndex(_)
SortByStartIndex(chunks) ==
    IF chunks = << >> THEN << >>
    ELSE InsertByStartIndex(SortByStartIndex(Front(chunks)), chunks[Len(chunks)])

\* (the chunks are left as fetched and concatenated, without the sort)
dependenciesToChunksMutantUnsorted(deps, decls, chunks) ==
    WhenOk(fetchChunksForDependencies(deps, decls), LAMBDA fetched :
        Ok(fetched.value \o [ k \in 1..Len(chunks) |-> Chunk(chunks[k], "") ]))
\* function dependenciesToChunks(deps, declarations, chunks)
dependenciesToChunks(deps, decls, chunks) ==
    WhenOk(fetchChunksForDependencies(deps, decls), LAMBDA fetched :
        Ok(SortByStartIndex(fetched.value
               \o [ k \in 1..Len(chunks) |-> Chunk(chunks[k], "") ])))

\* chunkToString(esm)(chunk)
chunkToString(text, chunk) ==
    IF chunk.replacedContent # "" THEN chunk.replacedContent
    ELSE SubSeq(text, chunk.startIndex + 1, chunk.endIndex)

\* dependenciesToChunks(deps, declarations, chunks).map(chunkToString(esm))
chunkStrings(deps, decls, chunks, text) ==
    WhenOk(dependenciesToChunks(deps, decls, chunks), LAMBDA sorted :
        Ok([ k \in 1..Len(sorted.value) |-> chunkToString(text, sorted.value[k]) ]))

(***************************************************************************)
(* Whole runs: writing files                                               *)
(***************************************************************************)
\* function stringSizeGzip(string): { raw, gzip }, the byte lengths of the
\* text and of zlib.gzip of it (what gzip gives is known only as a function
\* of the text)
stringSizeGzip(string) ==
    [ raw |-> Len(string), gzip |-> << "gzip(raw).byteLength", string >> ]

\* fs.writeFile(file, content, 'utf-8')
writeFile(fs, file, content) ==
    [ f \in DOMAIN fs \cup { file } |-> IF f = file THEN content ELSE fs[f] ]

\* (the file is written whatever allowed.writeFiles says)
writeFileAndPrintSizesMutantAlwaysWrites(fs, file, content, allowed) ==
    [ files |-> writeFile(fs, file, content),
      value |-> [ file |-> file, sizes |-> stringSizeGzip(content) ] ]
\* function writeFileAndPrintSizes(file, content, allowed): [files, value],
\* the file system after the call and the FileWithSizes it resolves to
writeFileAndPrintSizes(fs, file, content, allowed) ==
    [ files |-> IF allowed.writeFiles THEN writeFile(fs, file, content) ELSE fs,
      value |-> [ file |-> file, sizes |-> stringSizeGzip(content) ] ]

(***************************************************************************)
(* Whole runs: the single reduced module                                   *)
(***************************************************************************)
\* a list of lists, flattened
RECURSIVE Flat(_)
Flat(lists) == IF lists = << >> THEN << >> ELSE Head(lists) \o Flat(Tail(lists))

\* the elements of a Set kept as a list
Elements(set) == { set[k] : k \in 1..Len(set) }

\* getDeclarationsAndDependencies(esm) as a call that may throw
dependencyMap(r) ==
    IF r.thrown THEN Thrown(r.error)
    ELSE Ok([ declarations |-> r.declarations, unnamed |-> r.unnamed ])

\* programNodes.map(n => getDependenciesOf(n.name, map))
RECURSIVE closuresOf(_, _)
closuresOf(nodes, decls) ==
    IF nodes = << >> THEN Ok(<< >>)
    ELSE WhenOk(getDependenciesOf(Head(nodes).name, decls), LAMBDA first :
         WhenOk(closuresOf(Tail(nodes), decls), LAMBDA rest :
             Ok(<< first.value >> \o rest.value)))

\* function convertAndRemoveDeadCode(iife)
convertAndRemoveDeadCode(iife) ==
    WhenOk(dependencyMap(getDeclarationsAndDependencies(parseEsm(iife))), LAMBDA map :
    WhenOk(closuresOf(convert(iife).programNodes, map.value.declarations),
           LAMBDA closures :
    WhenOk(chunkStrings(SetAddAll(<< >>, Flat(closures.value)), map.value.declarations,
                        map.value.unnamed, convert(iife).esm),
           LAMBDA strings :
    Ok(JoinLines(Append(strings.value, exportsToString(convert(iife).programNodes)))
           \o "\n"))))

(***************************************************************************)
(* Whole runs: splitWith1stMode                                            *)
(***************************************************************************)
\* the orders of the final Set `shared`: the needs of the unnamed chunks come
\* first, in the order the Set was built from them; the names the planner
\* adds follow in the order it adds them, which the planner above, working
\* on sets, does not tell: any order
SharedOrders(initial, final) ==
    { initial \o added :
        added \in { f \in [ 1..Cardinality(final \ Elements(initial)) ->
                            final \ Elements(initial) ] :
                        \A i, j \in DOMAIN f : i # j => f[i] # f[j] } }

\* the start of splitWith1stMode up to the planner: the map, the programs
\* with their closures, the Set `shared` before and after
\* transformStateForSplitMode1
splitPlan(stmts, nodes) ==
    WhenOk(dependencyMap(getDeclarationsAndDependencies(stmts)), LAMBDA map :
    WhenOk(closuresOf(nodes, map.value.declarations), LAMBDA closures :
    Ok([ declarations |-> map.value.declarations,
         unnamed |-> map.value.unnamed,
         closures |-> closures.value,
         initial |-> SetAddAll(<< >>,
                        Flat([ k \in 1..Len(map.value.unnamed) |->
                                   map.value.unnamed[k].needs ])),
         planned |-> transformStateForSplitMode1(
                        [ programs |-> [ k \in 1..Len(nodes) |->
                              NewSplitProgram(nodes[k].name, Elements(closures.value[k])) ],
                          shared |-> Elements(SetAddAll(<< >>,
                              Flat([ k \in 1..Len(map.value.unnamed) |->
                                         map.value.unnamed[k].needs ]))) ]) ])))

\* const depsToString = (deps, chunks = []) => ...join('\n') + '\n'
depsToString(deps, chunks, decls, text) ==
    WhenOk(chunkStrings(deps, decls, chunks, text), LAMBDA strings :
        Ok(JoinLines(strings.value) \o "\n"))

\* const sharedLib = 'shared'
sharedLib == "shared"
\* the file the bundle is read from
filePath == "elm.js"
\* path.basename(filePath, path.extname(filePath)) + '.split'
basename == "elm.split"
\* `${basename}.${sharedLib}.mjs`
sharedFilename == basename \o "." \o sharedLib \o ".mjs"

\* (the shared module is left without its export statement)
sharedCodeOfMutantNoExport(order, chunks, decls, text) ==
    depsToString(order, chunks, decls, text)
\* let sharedCode = depsToString(shared, map.unnamed)
\* sharedCode += `export { ${Array.from(shared).join(', ')} };\n`
sharedCodeOf(order, chunks, decls, text) ==
    WhenOk(depsToString(order, chunks, decls, text), LAMBDA code :
        Ok(code.value \o "export { " \o JoinNames(order) \o " };\n"))

\* the leaves of a tree, from left to right
RECURSIVE LeavesOf(_)
RECURSIVE LeavesOfAll(_)
LeavesOfAll(nodes) ==
    IF nodes = << >> THEN << >> ELSE LeavesOf(Head(nodes)) \o LeavesOfAll(Tail(nodes))
LeavesOf(node) == IF node.children = << >> THEN << node >> ELSE LeavesOfAll(node.children)

\* startIndex and endIndex of the tokens of a text that begins at offset
RECURSIVE PlaceTokens(_, _)
PlaceTokens(tokens, offset) ==
    IF tokens = << >> THEN << >>
    ELSE << [ Head(tokens) EXCEPT !.startIndex = offset,
                                  !.endIndex = offset + Len(Head(tokens).text) ] >>
         \o PlaceTokens(Tail(tokens), offset + Len(Head(tokens).text) + 1)

\* the statement a chunk's text is the text of
ChunkStatement(chunk, stmts) ==
    IF chunk.replacedContent # ""
    THEN ReplacementStatement(CHOOSE key \in ReplacedNames :
                                  replacements(key) = chunk.replacedContent)
    ELSE stmts[CHOOSE k \in 1..Len(stmts) : stmts[k].startIndex = chunk.startIndex]

\* jsParser.parse(orig).rootNode.descendantsOfType('identifier') for
\* orig = depsToString(program.needs) + exportsToString([program]): the
\* identifiers of the chunks' statements and of the export statements, at
\* their places in orig
identifiersOf(chunks, stmts, program) ==
    SelectSeq(PlaceTokens(LeavesOfAll([ k \in 1..Len(chunks) |->
                                          ChunkStatement(chunks[k], stmts) ]
                                      \o exportsToStatements(<< program >>)),
                          IF chunks = << >> THEN 1 ELSE 0),
              LAMBDA token : token.type = "identifier")

\* (no identifier is given the prefix)
rewriteLoopMutantNoPrefix(identifiers, code, lastIndex, orig) == code \o orig \o "\n"
\* for (const identifier of identifiers) {
\*     code += orig.substring(lastIndex, identifier.startIndex) + sharedLib + '.'
\*     lastIndex = identifier.startIndex }
\* code += orig.substring(lastIndex) + '\n'
RECURSIVE rewriteLoop(_, _, _, _)
rewriteLoop(identifiers, code, lastIndex, orig) ==
    IF identifiers = << >>
    THEN code \o SubSeq(orig, lastIndex + 1, Len(orig)) \o "\n"
    ELSE rewriteLoop(Tail(identifiers),
                     code \o SubSeq(orig, lastIndex + 1, Head(identifiers).startIndex)
                          \o sharedLib \o ".",
                     Head(identifiers).startIndex, orig)

\* the body of `for (const program of programs)` up to the finished `code`;
\* needs is program.needs in insertion order
programCode(program, needs, sharedSet, decls, stmts, text) ==
    WhenOk(dependenciesToChunks(needs, decls, << >>), LAMBDA chunks :
    WhenOk(depsToString(needs, << >>, decls, text), LAMBDA deps :
    Ok(rewriteLoop(SelectSeq(identifiersOf(chunks.value, stmts, program),
                             LAMBDA token : token.text \in sharedSet),
                   "import * as " \o sharedLib \o " from './" \o sharedFilename \o "';\n",
                   0,
                   deps.value \o exportsToString(<< program >>)))))

(***************************************************************************)
(* Whole runs: splitPerProgramWithSingleSharedData(filePath, effects)      *)
(***************************************************************************)
\* function u(p) { return h; }
BundleU == FunctionDeclaration("u", << "p" >>, << ReturnStatement(Identifier("h")) >>)
\* function v(p) { return q; }
BundleV == FunctionDeclaration("v", << "p" >>, << ReturnStatement(Identifier("q")) >>)
\* var q = 1;
BundleQ == VariableDeclaration(<< VariableDeclarator("q", Number("1")) >>)
\* var g = q;
BundleG == VariableDeclaration(<< VariableDeclarator("g", Identifier("q")) >>)

\* function w(q) { return q; }
BundleW == FunctionDeclaration("w", << "q" >>, << ReturnStatement(Identifier("q")) >>)

\* the statements a compiled bundle is made of, in the order they stand in
\* it: var h = 1, k = h; the four above; a try statement that needs g; a
\* statement the graph builder has no rule for
BundleStatements == << TopVarMany, BundleU, BundleV, BundleQ, BundleG, TopTry, TopClass >>

\* the statements of a list whose positions are in `keep`, in their order
RECURSIVE Keep(_, _, _)
Keep(stmts, keep, k) ==
    IF k > Len(stmts) THEN << >>
    ELSE (IF k \in keep THEN << stmts[k] >> ELSE << >>) \o Keep(stmts, keep, k + 1)

\* the entries of the table passed to _Platform_export, as parseProgramPair
\* reads them: One: { init: u(k) }, Two: { init: v(h) }, Three: { init: v(g) }
EntryPoints ==
    { [ name |-> "One",
        init |-> CallExpression(Identifier("u"), << Identifier("k") >>) ],
      [ name |-> "Two",
        init |-> CallExpression(Identifier("v"), << Identifier("h") >>) ],
      [ name |-> "Three",
        init |-> CallExpression(Identifier("v"), << Identifier("g") >>) ] }

\* the entry tables: at most MaxPrograms different entries, in any order
EntryTables ==
    { t \in SeqsUpTo(EntryPoints, MaxPrograms) :
          \A i, j \in 1..Len(t) : i # j => t[i] # t[j] }

\* a bundle in which a parameter has the name of a top-level declaration:
\* function v(p) { return q; } var q = 1; function w(q) { return q; } with
\* the table One: { init: w(q) }, Two: { init: v(q) }
ShadowBundle ==
    [ body |-> << BundleV, BundleQ, BundleW >>,
      table |-> << [ name |-> "One",
                     init |-> CallExpression(Identifier("w"), << Identifier("q") >>) ],
                   [ name |-> "Two",
                     init |-> CallExpression(Identifier("v"), << Identifier("q") >>) ] >> ]

\* const input = { file: filePath, sizes: before }; the text of the bundle
\* is its statements and the call of _Platform_export with the entry table
InputFile(iife) ==
    [ file |-> filePath,
      sizes |-> stringSizeGzip(
          JoinLines([ k \in 1..Len(iife.body) |-> TextOf(iife.body[k]) ])
              \o "\n_Platform_export ( { "
              \o JoinNames([ k \in 1..Len(iife.table) |->
                               iife.table[k].name \o " : { init : "
                                   \o TextOf(iife.table[k].init) \o " }" ])
              \o " } ) ;") ]

\* prepareSplit ends in its catch clause: the table is empty, or it holds
\* one program and convertAndRemoveDeadCode throws
PrepareError ==
    /\ mode = "split" /\ pc = "prepare"
    /\ \/ /\ Len(convert(bundle).programNodes) < 1
          /\ returned' = [ tag |-> "result", result |-> "error",
                           input |-> InputFile(bundle),
                           message |-> "Could not extract a main program" ]
       \/ /\ Len(convert(bundle).programNodes) = 1
          /\ \E esmDce \in { convertAndRemoveDeadCode(bundle) } :
                /\ ~esmDce.ok
                /\ returned' = [ tag |-> "result", result |-> "error",
                                 input |-> InputFile(bundle),
                                 message |-> esmDce.error ]
    /\ pc' = "done"
    /\ UNCHANGED <<mode, declarations, identifier, queue, result>>
    /\ UNCHANGED planVars
    /\ UNCHANGED graphVars
    /\ UNCHANGED splitVars

\* prepareSplit with one program in the table: the reduced module is
\* written and { result: 'esm-dce', ... } returned (esm, programNodes, the
\* statements and the map are the locals of convertAndRemoveDeadCode)
PrepareSingle ==
    /\ mode = "split" /\ pc = "prepare"
    /\ Len(convert(bundle).programNodes) = 1
    /\ \E esmDce \in { convertAndRemoveDeadCode(bundle) } :
          /\ esmDce.ok
          /\ \E output \in { writeFileAndPrintSizes(files, filePath \o ".dce.mjs",
                                 "// Converted from " \o filePath \o "\n" \o esmDce.value,
                                 effects) } :
                /\ files' = output.files
                /\ returned' = [ tag |-> "result", result |-> "esm-dce",
                                 input |-> InputFile(bundle),
                                 programs |-> programNodeNames(convert(bundle).programNodes),
                                 output |-> output.value ]
    /\ esm' = convert(bundle).esm
    /\ programNodes' = convert(bundle).programNodes
    /\ source' = parseEsm(bundle)
    /\ \E map \in { dependencyMap(getDeclarationsAndDependencies(parseEsm(bundle))) } :
          /\ declarations' = map.value.declarations
          /\ unnamed' = map.value.unnamed
    /\ pc' = "done"
    /\ UNCHANGED <<mode, identifier, queue, result, cursor, parsed>>
    /\ UNCHANGED planVars
    /\ UNCHANGED <<effects, bundle, sharedOrder, outputs, writes>>

\* prepareSplit with two or more programs: { result: 'can-split', input, esm,
\* programNodes }, which splitPerProgramWithSingleSharedData hands to
\* splitWith1stMode
PrepareCanSplit ==
    /\ mode = "split" /\ pc = "prepare"
    /\ Len(convert(bundle).programNodes) > 1
    /\ esm' = convert(bundle).esm
    /\ programNodes' = convert(bundle).programNodes
    /\ pc' = "split"
    /\ UNCHANGED <<mode, declarations, identifier, queue, result, returned>>
    /\ UNCHANGED planVars
    /\ UNCHANGED graphVars
    /\ UNCHANGED <<effects, bundle, sharedOrder, outputs, files, writes>>

\* splitWith1stMode throws before it wrote a file: the graph builder or
\* getDependenciesOf throws, or a name the unnamed chunks need has no
\* declaration (fetchChunksForDependencies)
SplitThrow ==
    /\ mode = "split" /\ pc = "split"
    /\ \E plan \in { splitPlan(parseEsm(bundle), programNodes) } :
          \/ /\ ~plan.ok
             /\ returned' = [ tag |-> "throw", error |-> plan.error ]
          \/ /\ plan.ok
             /\ \E code \in { sharedCodeOf(plan.value.initial, plan.value.unnamed,
                                           plan.value.declarations, esm) } :
                   /\ ~code.ok
                   /\ returned' = [ tag |-> "throw", error |-> code.error ]
    /\ pc' = "done"
    /\ UNCHANGED <<mode, declarations, identifier, queue, result>>
    /\ UNCHANGED planVars
    /\ UNCHANGED graphVars
    /\ UNCHANGED splitVars

\* splitWith1stMode from its start to the shared module: the map, the
\* programs, the planner, sharedCode and writeFileAndPrintSizes(dest,
\* sharedCode, effects); the writes of a run go to different files and are
\* all awaited before the report is returned, each is taken where it starts
SplitShared ==
    /\ mode = "split" /\ pc = "split"
    /\ \E plan \in { splitPlan(parseEsm(bundle), programNodes) } :
          /\ plan.ok
          /\ \E order \in SharedOrders(plan.value.initial, plan.value.planned.shared) :
             \E code \in { sharedCodeOf(order, plan.value.unnamed,
                                        plan.value.declarations, esm) } :
                /\ code.ok
                /\ source' = parseEsm(bundle)
                /\ declarations' = plan.value.declarations
                /\ unnamed' = plan.value.unnamed
                /\ programs' = plan.value.planned.programs
                /\ shared' = plan.value.planned.shared
                /\ sharedOrder' = order
                /\ \E sharedFile \in { writeFileAndPrintSizes(files, sharedFilename,
                                           code.value, effects) } :
                      /\ files' = sharedFile.files
                      /\ outputs' = [ shared |-> sharedFile.value, programs |-> << >> ]
    /\ index' = 1
    /\ pc' = "program"
    /\ UNCHANGED <<mode, identifier, queue, result, returned, cursor, parsed,
                   bpos, planInput, effects, bundle, esm, programNodes, writes>>

\* program.needs in insertion order: what the planner left of the closure
needsInOrder(program, nodes, decls) ==
    SelectSeq(getDependenciesOf(program.name, decls).value,
              LAMBDA need : need \in program.needs)

\* one round of `for (const program of programs)`: orig, the identifiers,
\* code, files.push(writeFileAndPrintSizes(dest, code, effects))
SplitProgram ==
    /\ mode = "split" /\ pc = "program"
    /\ index <= Len(programs)
    /\ \E code \in { programCode(programNodes[index],
                                 needsInOrder(programs[index], programNodes, declarations),
                                 shared, declarations, source, esm) } :
          /\ code.ok
          /\ \E file \in { writeFileAndPrintSizes(files,
                               basename \o "." \o programs[index].name \o ".mjs",
                               code.value, effects) } :
                /\ files' = file.files
                /\ outputs' = [ outputs EXCEPT !.programs = Append(@, file.value) ]
    /\ index' = index + 1
    /\ UNCHANGED <<mode, pc, programs, shared, bpos, planInput>>
    /\ UNCHANGED depsVars
    /\ UNCHANGED graphVars
    /\ UNCHANGED <<effects, bundle, esm, programNodes, sharedOrder, writes>>

\* return { result: 'split-programs-one-shared', input, programs, output }
SplitReturn ==
    /\ mode = "split" /\ pc = "program"
    /\ index > Len(programs)
    /\ returned' = [ tag |-> "result", result |-> "split-programs-one-shared",
                     input |-> InputFile(bundle),
                     programs |-> programNodeNames(programNodes),
                     output |-> outputs ]
    /\ pc' = "done"
    /\ UNCHANGED <<mode, declarations, identifier, queue, result>>
    /\ UNCHANGED planVars
    /\ UNCHANGED graphVars
    /\ UNCHANGED splitVars

\* a call splitPerProgramWithSingleSharedData(filePath, effects) on a bundle
\* of some of the statements above and an entry table, or on the bundle with
\* the parameter named like a declaration; no file of the run exists yet
InitSplit ==
    /\ mode = "split" /\ pc = "prepare"
    /\ \/ \E keep \in SUBSET (1..Len(BundleStatements)), table \in EntryTables :
             bundle = [ body |-> Keep(BundleStatements, keep, 1), table |-> table ]
       \/ bundle = ShadowBundle
    /\ effects \in [ writeFiles : BOOLEAN ]
    /\ esm = "" /\ programNodes = << >>
    /\ sharedOrder = << >> /\ outputs = [ shared |-> << >>, programs |-> << >> ]
    /\ files = << >> /\ writes = << >>
    /\ returned = [ tag |-> "none" ]
    /\ declarations = << >> /\ identifier = "" /\ queue = << >> /\ result = {}
    /\ programs = << >> /\ shared = {} /\ index = 0 /\ bpos = 0
    /\ planInput = [ programs |-> << >>, shared |-> {} ]
    /\ source = << >> /\ cursor = 0 /\ unnamed = << >> /\ parsed = NullParsed

NextSplit ==
    \/ PrepareError \/ PrepareSingle \/ PrepareCanSplit
    \/ SplitThrow \/ SplitShared \/ SplitProgram \/ SplitReturn

SpecSplit == InitSplit /\ [][NextSplit]_vars

(***************************************************************************)
(* splitWith1stMode with its writes in flight (SpecWrites)                 *)
(*                                                                         *)
(* writeFileAndPrintSizes is an async function: a call runs up to its      *)
(* first await and hands back a promise.  splitWith1stMode keeps the       *)
(* promises (sharedFile, files) and awaits them only in its return         *)
(* statement.  Here every call is a record of `writes` with the stage its  *)
(* promise is in: "writeFile" (fs.writeFile is pending), "gzip" (the file  *)
(* is written, the sizes are being computed) or "resolved"; pending steps  *)
(* of different calls complete in any order, at any time.                  *)
(***************************************************************************)
\* (every program module goes to one and the same file)
programDestMutantOneFile(program) == basename \o ".program.mjs"
\* path.join(outDir, `${basename}.${program.name}.mjs`), relative to outDir
programDest(program) == basename \o "." \o program.name \o ".mjs"

\* writeFileAndPrintSizes(file, content, allowed) up to its first await
StartWrite(file, content, allowed) ==
    [ file |-> file, content |-> content,
      stage |-> IF allowed.writeFiles THEN "writeFile" ELSE "gzip" ]

\* the FileWithSizes the promise of a call resolves to
FileWithSizes(write) == [ file |-> write.file, sizes |-> stringSizeGzip(write.content) ]

\* splitWith1stMode throws before it started a write
WritesThrow ==
    /\ mode = "writes" /\ pc = "split"
    /\ \E plan \in { splitPlan(parseEsm(bundle), programNodes) } :
          \/ /\ ~plan.ok
             /\ returned' = [ tag |-> "throw", error |-> plan.error ]
          \/ /\ plan.ok
             /\ \E code \in { sharedCodeOf(plan.value.initial, plan.value.unnamed,
                                           plan.value.declarations, esm) } :
                   /\ ~code.ok
                   /\ returned' = [ tag |-> "throw", error |-> code.error ]
    /\ pc' = "done"
    /\ UNCHANGED <<mode, declarations, identifier, queue, result>>
    /\ UNCHANGED planVars
    /\ UNCHANGED graphVars
    /\ UNCHANGED splitVars

\* splitWith1stMode from its start to
\* const sharedFile = writeFileAndPrintSizes(dest, sharedCode, effects)
WritesShared ==
    /\ mode = "writes" /\ pc = "split"
    /\ \E plan \in { splitPlan(parseEsm(bundle), programNodes) } :
          /\ plan.ok
          /\ \E order \in SharedOrders(plan.value.initial, plan.value.planned.shared) :
             \E code \in { sharedCodeOf(order, plan.value.unnamed,
                                        plan.value.declarations, esm) } :
                /\ code.ok
                /\ source' = parseEsm(bundle)
                /\ declarations' = plan.value.declarations
                /\ unnamed' = plan.value.unnamed
                /\ programs' = plan.value.planned.programs
                /\ shared' = plan.value.planned.shared
                /\ sharedOrder' = order
                /\ writes' = << StartWrite(sharedFilename, code.value, effects) >>
    /\ index' = 1
    /\ pc' = "program"
    /\ UNCHANGED <<mode, identifier, queue, result, returned, cursor, parsed,
                   bpos, planInput, effects, bundle, esm, programNodes, outputs, files>>

\* one round of `for (const program of programs)`:
\* files.push(writeFileAndPrintSizes(dest, code, effects))
WritesProgram ==
    /\ mode = "writes" /\ pc = "program"
    /\ index <= Len(programs)
    /\ \E code \in { programCode(programNodes[index],
                                 needsInOrder(programs[index], programNodes, declarations),
                                 shared, declarations, source, esm) } :
          /\ code.ok
          /\ writes' = Append(writes,
                           StartWrite(programDest(programs[index]), code.value, effects))
    /\ index' = index + 1
    /\ UNCHANGED <<mode, pc, programs, shared, bpos, planInput>>
    /\ UNCHANGED depsVars
    /\ UNCHANGED graphVars
    /\ UNCHANGED <<effects, bundle, esm, programNodes, sharedOrder, outputs, files>>

\* a pending fs.writeFile(file, content, 'utf-8') completes
WriteFileCompletes ==
    /\ mode = "writes"
    /\ \E k \in 1..Len(writes) :
          /\ writes[k].stage = "writeFile"
          /\ files' = writeFile(files, writes[k].file, writes[k].content)
          /\ writes' = [ writes EXCEPT ![k].stage = "gzip" ]
    /\ UNCHANGED <<mode, pc>>
    /\ UNCHANGED planVars
    /\ UNCHANGED depsVars
    /\ UNCHANGED graphVars
    /\ UNCHANGED <<effects, bundle, esm, programNodes, sharedOrder, outputs>>

\* a pending stringSizeGzip(content) completes and the promise is resolved
GzipCompletes ==
    /\ mode = "writes"
    /\ \E k \in 1..Len(writes) :
          /\ writes[k].stage = "gzip"
          /\ writes' = [ writes EXCEPT ![k].stage = "resolved" ]
    /\ UNCHANGED <<mode, pc>>
    /\ UNCHANGED planVars
    /\ UNCHANGED depsVars
    /\ UNCHANGED graphVars
    /\ UNCHANGED <<effects, bundle, esm, programNodes, sharedOrder, outputs, files>>

\* return { ..., output: { shared: await sharedFile,
\*                         programs: await Promise.all(files) } }
WritesReturn ==
    /\ mode = "writes" /\ pc = "program"
    /\ index > Len(programs)
    /\ \A k \in 1..Len(writes) : writes[k].stage = "resolved"
    /\ outputs' = [ shared |-> FileWithSizes(writes[1]),
                    programs |-> [ k \in 1..(Len(writes) - 1) |->
                                     FileWithSizes(writes[k + 1]) ] ]
    /\ returned' = [ tag |-> "result", result |-> "split-programs-one-shared",
                     input |-> InputFile(bundle),
                     programs |-> programNodeNames(programNodes),
                     output |-> outputs' ]
    /\ pc' = "done"
    /\ UNCHANGED <<mode, declarations, identifier, queue, result>>
    /\ UNCHANGED planVars
    /\ UNCHANGED graphVars
    /\ UNCHANGED <<effects, bundle, esm, programNodes, sharedOrder, files, writes>>

\* a call splitWith1stMode({ input, outDir, basename, programNodes, esm,
\* effects }) with what prepareSplit made of a bundle with two or more
\* programs; no file of the run exists yet
InitWrites ==
    /\ mode = "writes" /\ pc = "split"
    /\ \E keep \in SUBSET (1..Len(BundleStatements)), table \in EntryTables :
          /\ Len(table) > 1
          /\ bundle = [ body |-> Keep(BundleStatements, keep, 1), table |-> table ]
    /\ effects \in [ writeFiles : BOOLEAN ]
    /\ esm = convert(bundle).esm /\ programNodes = convert(bundle).programNodes
    /\ sharedOrder = << >> /\ outputs = [ shared |-> << >>, programs |-> << >> ]
    /\ files = << >> /\ writes = << >>
    /\ returned = [ tag |-> "none" ]
    /\ declarations = << >> /\ identifier = "" /\ queue = << >> /\ result = {}
    /\ programs = << >> /\ shared = {} /\ index = 0 /\ bpos = 0
    /\ planInput = [ programs |-> << >>, shared |-> {} ]
    /\ source = << >> /\ cursor = 0 /\ unnamed = << >> /\ parsed = NullParsed

NextWrites ==
    \/ WritesThrow \/ WritesShared \/ WritesProgram
    \/ WriteFileCompletes \/ GzipCompletes \/ WritesReturn

SpecWrites == InitWrites /\ [][NextWrites]_vars

(***************************************************************************)
(* Claims about the split planner (SpecPlan)                               *)
(***************************************************************************)
PlanDone == mode = "plan" /\ pc = "done"
PlanIdx == 1..Len(planInput.programs)
\* the needs program i was called with: its dependency closure
N0(i) == planInput.programs[i].needs

\* the stepwise run and the function agree on the final state
PlanStepsAgreeWithFunction ==
    PlanDone => transformStateForSplitMode1(planInput)
                  = [ programs |-> programs, shared |-> shared ]

\* C1: after the planner has run on two or more programs whose shared sets
\* start empty, every name that was in the initial needs of two distinct
\* programs is in the final global shared set.
C1_CommonNeedsAreShared ==
    PlanDone =>
        \A i \in PlanIdx : \A j \in PlanIdx \ {i} :
            (N0(i) \cap N0(j)) \subseteq shared

\* three programs with partially overlapping needs: one and two overlap, two
\* and three overlap, one and three do not, and nothing was shared beforehand
C1_Witness ==
    /\ PlanDone
    /\ Len(programs) = 3
    /\ planInput.shared = {}
    /\ N0(1) \cap N0(2) # {} /\ N0(2) \cap N0(3) # {} /\ N0(1) \cap N0(3) = {}
    /\ N0(1) \ N0(2) # {} /\ N0(3) \ N0(2) # {}

\* C2: when the planner returns, every program's needs are disjoint from its
\* own shared set and from the global shared set.
C2_NeedsDisjointFromShared ==
    PlanDone =>
        \A i \in 1..Len(programs) :
            /\ programs[i].needs \cap programs[i].shared = {}
            /\ programs[i].needs \cap shared = {}

\* a name entered the global shared set only while the programs after the
\* first one were processed, and the first program kept private needs
C2_Witness ==
    /\ PlanDone
    /\ Len(programs) = 3
    /\ programs[1].needs # {}
    /\ \E x \in shared \ planInput.shared :
          x \notin N0(1) /\ x \in N0(2) \cap N0(3)
    /\ planInput.shared \cap N0(1) # {}

\* C3: every name of elementsToAlwaysShare that is in the closure of at
\* least one program ends in the global shared set and in no program's
\* needs, whatever the position of the program that references it.
C3_ForcedNamesAreShared ==
    PlanDone =>
        \A x \in elementsToAlwaysShare :
            (\E i \in PlanIdx : x \in N0(i)) =>
                /\ x \in shared
                /\ \A i \in 1..Len(programs) : x \notin programs[i].needs

\* C4: a name needed by exactly one program, not initially shared and not in
\* elementsToAlwaysShare, stays in that program's needs and enters neither
\* the global shared set nor any program's shared set.
C4_ExclusiveNeedsStayPrivate ==
    PlanDone =>
        \A i \in PlanIdx : \A x \in N0(i) :
            ( /\ \A j \in PlanIdx \ {i} : x \notin N0(j)
              /\ x \notin planInput.shared
              /\ x \notin elementsToAlwaysShare )
            => /\ x \in programs[i].needs
               /\ x \notin shared
               /\ \A j \in 1..Len(programs) : x \notin programs[j].shared

\* a program keeps an exclusive name while another of its names is promoted
C4_Witness ==
    /\ PlanDone
    /\ \E i \in PlanIdx : \E x \in N0(i) :
          /\ \A j \in PlanIdx \ {i} : x \notin N0(j)
          /\ x \notin planInput.shared
          /\ x \notin elementsToAlwaysShare
          /\ x \in programs[i].needs
          /\ programs[i].shared \ planInput.shared # {}

\* C5: the final global shared set S partitions each program's initial
\* needs: P.shared = N0(P) \cap S and P.needs = N0(P) \ S, and S contains
\* the initial global shared set.
C5_NeedsPartitionedByShared ==
    PlanDone =>
        /\ planInput.shared \subseteq shared
        /\ \A i \in PlanIdx :
              /\ programs[i].shared = N0(i) \cap shared
              /\ programs[i].needs = N0(i) \ shared

\* the scenario of the test 'Simple split of shared deps' (without the
\* private name `c` of program two): `d` is shared beforehand and needed by
\* program two only, `b` is needed by both
C5_Witness ==
    /\ PlanDone
    /\ planInput.shared = { "d" }
    /\ Len(programs) = 2
    /\ N0(1) = { "a", "b" } /\ N0(2) = { "d", "b" }
    /\ shared = { "d", "b" }
    /\ programs[1].needs = { "a" } /\ programs[1].shared = { "b" }
    /\ programs[2].needs = {} /\ programs[2].shared = { "b", "d" }

\* the bijections of 1..n
ProgramOrders(n) ==
    { f \in [ 1..n -> 1..n ] : \A i \in 1..n : \A j \in 1..n : f[i] = f[j] => i = j }

\* C6: permuting the order of the programs in the input list changes neither
\* the final global shared set nor any program's final needs and shared sets.
C6_PlanIsOrderIndependent ==
    PlanDone =>
        \A f \in ProgramOrders(Len(programs)) :
            LET permuted == [ programs |-> [ k \in PlanIdx |-> planInput.programs[f[k]] ],
                              shared |-> planInput.shared ]
                out == transformStateForSplitMode1(permuted)
            IN  /\ out.shared = shared
                /\ \A k \in PlanIdx : out.programs[k] = programs[f[k]]

(***************************************************************************)
(* Claims about getDependenciesOf (SpecDeps)                               *)
(***************************************************************************)
DepsDone == mode = "deps" /\ pc = "done"

\* the `needs` edges of a name (none when the map has no entry for it)
NeedsEdges(n) ==
    IF n \in DOMAIN declarations
    THEN { declarations[n].needs[k] : k \in 1..Len(declarations[n].needs) }
    ELSE {}

RECURSIVE ClosedUnderEdges(_)
ClosedUnderEdges(S) ==
    LET T == S \cup UNION { NeedsEdges(n) : n \in S }
    IN  IF T = S THEN S ELSE ClosedUnderEdges(T)
\* the names reachable from n by one or more `needs` edges
ReachableFrom(n) == ClosedUnderEdges(NeedsEdges(n))

\* the seed and every name reachable from it have an entry in the map
AllKnown(seed) == ({ seed } \cup ReachableFrom(seed)) \subseteq DOMAIN declarations

\* C7: for a seed present in the map (whose reachable names all have
\* entries, otherwise C8 applies) getDependenciesOf returns exactly the names
\* reachable from the seed by one or more needs edges, minus the seed.
C7_ClosureIsReachableMinusSeed ==
    DepsDone =>
        /\ AllKnown(identifier) => returned.tag = "set"
        /\ returned.tag = "set" =>
              returned.value = ReachableFrom(identifier) \ { identifier }

\* the seed lies on a cycle through another name, and a third name is
\* reachable: the seed is reachable from itself and absent from the result
C7_Witness ==
    /\ DepsDone
    /\ returned.tag = "set"
    /\ identifier \in ReachableFrom(identifier)
    /\ identifier \notin NeedsEdges(identifier)
    /\ Cardinality(returned.value) = 2

\* C8: getDependenciesOf throws the unknown-identifier error, and returns no
\* set, whenever the seed or a name reachable from it has no entry in
\* map.declarations.
C8_UnknownIdentifierThrows ==
    DepsDone =>
        ( ~AllKnown(identifier) =>
            /\ returned.tag = "throw"
            /\ DOMAIN returned = { "tag", "unknown" }
            /\ returned.unknown \notin DOMAIN declarations
            /\ returned.unknown \in { identifier } \cup ReachableFrom(identifier) )

\* the unknown name is not a direct need of the seed: it is met after other
\* declarations have been expanded
C8_Witness ==
    /\ DepsDone
    /\ returned.tag = "throw"
    /\ identifier \in DOMAIN declarations
    /\ returned.unknown \notin NeedsEdges(identifier)
    /\ Cardinality(result) = 2


(***************************************************************************)
(* Claims about the dependency graph builder (SpecGraph)                   *)
(*                                                                         *)
(* The reference the claims are measured against is the scoping of the     *)
(* language the builder reads: `var` and function declarations are bound   *)
(* in the whole body of the nearest enclosing function (or of the          *)
(* top-level statement), parameters in their function, a catch parameter   *)
(* in its catch clause.                                                    *)
(***************************************************************************)
GraphDone == mode = "graph" /\ pc = "done" /\ returned.tag = "map"

Range(seq) == { seq[k] : k \in 1..Len(seq) }

\* the top-level statement a declaration of the map was read from
StatementOf(d) ==
    source[CHOOSE k \in 1..Len(source) : source[k].startIndex = d.startIndex]

\* the names `var` declares in node, outside of nested functions
RECURSIVE VarNamesIn(_)
VarNamesIn(node) ==
    CASE node.type \in { "function_declaration", "function" } -> {}
      [] node.type = "variable_declarator" ->
            { node.children[1].text }
            \cup UNION { VarNamesIn(node.children[k]) : k \in 2..Len(node.children) }
      [] OTHER -> UNION { VarNamesIn(node.children[k]) : k \in 1..Len(node.children) }

\* the names function declarations declare in node, outside of nested functions
RECURSIVE FunctionNamesIn(_)
FunctionNamesIn(node) ==
    CASE node.type = "function_declaration" -> { node.children[2].text }
      [] node.type = "function" -> {}
      [] OTHER -> UNION { FunctionNamesIn(node.children[k]) : k \in 1..Len(node.children) }

\* the names bound in the whole of a function body or top-level statement
HoistedIn(node) == VarNamesIn(node) \cup FunctionNamesIn(node)

\* the names node refers to that are bound neither in `bound` nor inside node
RECURSIVE FreeRefs(_, _)
FreeRefs(node, bound) ==
    CASE node.type \in { "identifier", "shorthand_property_identifier" } ->
            { node.text } \ bound
      [] node.type = "function_declaration" ->
            FreeRefs(node.children[4],
                     bound \cup formalParameterNames(node.children[3])
                           \cup HoistedIn(node.children[4]))
      [] node.type = "function" ->
            FreeRefs(node.children[3],
                     bound \cup formalParameterNames(node.children[2])
                           \cup HoistedIn(node.children[3]))
      [] node.type = "variable_declarator" ->
            UNION { FreeRefs(node.children[k], bound) : k \in 2..Len(node.children) }
      [] node.type = "catch_clause" ->
            FreeRefs(node.children[5], bound \cup { node.children[3].text })
      [] node.type = "class_declaration" -> {}
      [] OTHER -> UNION { FreeRefs(node.children[k], bound) : k \in 1..Len(node.children) }

\* the names a top-level statement refers to and does not bind itself
FreeNames(stmt) == FreeRefs(stmt, HoistedIn(stmt))

\* C9: for every Declaration getDeclarationsAndDependencies produces, needs
\* holds no name that is bound where it is referred to: by the declaration
\* itself (its own name, parameters, local variable and function
\* declarations) or by an enclosing scope, in every expression form,
\* object-literal shorthand properties included.
C9_NeedsHoldNoBoundName ==
    GraphDone =>
        \A n \in DOMAIN returned.declarations :
            Range(returned.declarations[n].needs)
                \subseteq FreeNames(StatementOf(returned.declarations[n]))

\* the statements that open a nested block in a function body
BlockStatementTypes ==
    { "if_statement", "for_statement", "for_in_statement", "while_statement",
      "do_statement", "switch_statement", "try_statement", "statement_block",
      "labeled_statement" }

\* C10: a `var` declared inside a nested block of a function body is bound
\* for the whole function: a name declared so in one block and referred to
\* from a later sibling block is not in the needs of the function.
C10_VarInNestedBlockBindsFunction ==
    GraphDone =>
        \A n \in DOMAIN returned.declarations :
            LET d == returned.declarations[n]
                stmt == StatementOf(d)
                body == IF stmt.type = "function_declaration"
                        THEN namedChildren(stmt.children[4])
                        ELSE << >>
            IN  \A i, j \in 1..Len(body) :
                    ( /\ i < j
                      /\ body[i].type \in BlockStatementTypes
                      /\ body[j].type \in BlockStatementTypes )
                    => (VarNamesIn(body[i]) \cap FreeRefs(body[j], {}))
                           \cap Range(d.needs) = {}


\* C11: no name of the ambient-global allowlist (console, window, document,
\* Math, Array, ...) is in the needs of a Declaration or of an unnamed chunk.
C11_NoAmbientNameInNeeds ==
    GraphDone =>
        /\ \A n \in DOMAIN returned.declarations :
               Range(returned.declarations[n].needs) \cap AmbientGlobals = {}
        /\ \A k \in 1..Len(returned.unnamed) :
               Range(returned.unnamed[k].needs) \cap AmbientGlobals = {}


\* the categories the switch of getDeclarationsAndDependencies names
TopLevelCategories ==
    { "variable_declaration", "function_declaration", "try_statement",
      "expression_statement", "comment", "export_statement" }

\* the categories the switch of findNeeds names
FindNeedsCategories ==
    { "function_declaration", "function", "arguments", "parenthesized_expression",
      "if_statement", "else_clause", "for_statement", "for_in_statement",
      "variable_declaration", "variable_declarator", "identifier",
      "labeled_statement", "return_statement", "try_statement", "statement_block",
      "switch_statement", "shorthand_property_identifier" }
    \cup ChildrenFlatMapTypes \cup NoNeedsTypes

\* the categories of the nodes below (and including) node that the builder
\* meets: the nodes it asks findNeeds about when nothing throws before
RECURSIVE MetCategories(_)
MetCategories(node) ==
    { node.type } \cup
    CASE node.type = "function_declaration" -> MetCategories(node.children[4])
      [] node.type = "function" -> MetCategories(node.children[3])
      [] node.type \in { "arguments", "if_statement" } ->
            UNION { MetCategories(c) : c \in Range(namedChildren(node)) }
      [] node.type \in { "parenthesized_expression", "else_clause", "return_statement" } ->
            MetCategories(node.children[2])
      [] node.type = "variable_declaration" ->
            UNION { MetCategories(c.children[3]) :
                      c \in { x \in Range(node.children) :
                                x.type = "variable_declarator" /\ Len(x.children) >= 3 } }
      [] node.type = "variable_declarator" -> MetCategories(node.children[3])
      [] node.type = "labeled_statement" -> MetCategories(node.children[3])
      [] node.type = "try_statement" -> MetCategories(node.children[2])
      [] node.type = "for_statement" ->
            UNION { MetCategories(c) :
                      c \in { x \in Range(node.children) :
                                x.type \notin { "for", "(", ")", "empty_statement" } } }
      [] node.type = "for_in_statement" ->
            MetCategories(node.children[6]) \cup MetCategories(node.children[8])
      [] OTHER -> UNION { MetCategories(c) : c \in Range(node.children) }

\* a top-level statement the builder has no rule for, or one in which it
\* meets a node it has no rule for
Unsupported(stmt) ==
    \/ stmt.type \notin TopLevelCategories
    \/ /\ stmt.type \in { "variable_declaration", "function_declaration", "try_statement" }
       /\ ~(MetCategories(stmt) \subseteq FindNeedsCategories)
    \/ /\ stmt.type = "export_statement"
       /\ ~(MetCategories(stmt.children[Len(stmt.children)]) \ { ";", "lexical_declaration", "const" }
              \subseteq FindNeedsCategories)

C20_NestedFunctionIsBoundInWholeBody ==
    GraphDone =>
        \A n \in DOMAIN returned.declarations :
            LET d == returned.declarations[n]
                stmt == StatementOf(d)
                body == IF stmt.type = "function_declaration"
                        THEN namedChildren(stmt.children[4])
                        ELSE << >>
            IN  \A i \in 1..Len(body) :
                    body[i].type = "function_declaration"
                    => body[i].children[2].text \notin Range(d.needs)


(***************************************************************************)
(* Claims about whole runs (SpecSplit)                                     *)
(***************************************************************************)
\* the loop of getDeclarationsAndDependencies, run step by step (SpecGraph),
\* ends as the function used in the whole runs does
GraphStepsAgreeWithFunction ==
    (mode = "graph" /\ pc = "done") =>
        IF returned.tag = "map"
        THEN /\ ~getDeclarationsAndDependencies(source).thrown
             /\ getDeclarationsAndDependencies(source).declarations = returned.declarations
             /\ getDeclarationsAndDependencies(source).unnamed = returned.unnamed
        ELSE /\ getDeclarationsAndDependencies(source).thrown
             /\ getDeclarationsAndDependencies(source).error = returned.error

\* the loop of getDependenciesOf, run step by step (SpecDeps), ends as the
\* function used in the whole runs does
DepsStepsAgreeWithFunction ==
    (mode = "deps" /\ pc = "done") =>
        IF returned.tag = "set"
        THEN /\ getDependenciesOf(identifier, declarations).ok
             /\ Elements(getDependenciesOf(identifier, declarations).value) = returned.value
        ELSE ~getDependenciesOf(identifier, declarations).ok

\* the run returned a report of the given kind
RunDone(kind) ==
    mode = "split" /\ pc = "done" /\ returned.tag = "result" /\ returned.result = kind

\* the lists that hold the elements of a list without repetitions, each once
ListOrders(list) ==
    { f \in [ 1..Len(list) -> Elements(list) ] :
          \A i, j \in 1..Len(list) : i # j => f[i] # f[j] }

\* the name list the reduced module was assembled from
SingleDeps == SetAddAll(<< >>, Flat(closuresOf(programNodes, declarations).value))

\* the calls of dependenciesToChunks a finished run made: [deps, chunks]
AssemblerCalls ==
    IF RunDone("esm-dce") THEN { [ deps |-> SingleDeps, chunks |-> unnamed ] }
    ELSE IF RunDone("split-programs-one-shared")
    THEN { [ deps |-> sharedOrder, chunks |-> unnamed ] }
         \cup { [ deps |-> needsInOrder(programs[k], programNodes, declarations),
                  chunks |-> << >> ] : k \in 1..Len(programs) }
    ELSE {}

\* C13: dependenciesToChunks returns the declarations of all given names and
\* all extra chunks, ordered by non-decreasing startIndex, and the text
\* assembled from it does not depend on the order the names were inserted in
\* the Set: every order of the same names gives the same text.
C13_ChunksSortedAndOrderIndependent ==
    \A call \in AssemblerCalls :
        \A deps \in ListOrders(call.deps) :
            LET sorted == dependenciesToChunks(deps, declarations, call.chunks).value
            IN  /\ Len(sorted) = Len(deps) + Len(call.chunks)
                /\ \A k \in 1..Len(deps) :
                       \E i \in 1..Len(sorted) :
                           sorted[i].startIndex = declarations[deps[k]].startIndex
                /\ \A k \in 1..Len(call.chunks) :
                       \E i \in 1..Len(sorted) :
                           sorted[i].startIndex = call.chunks[k].startIndex
                /\ \A i \in 1..Len(sorted) - 1 :
                       sorted[i].startIndex <= sorted[i + 1].startIndex
                /\ chunkStrings(deps, declarations, call.chunks, esm)
                       = chunkStrings(call.deps, declarations, call.chunks, esm)

\* a reduced module was assembled from three names fetched out of source
\* order (u before h and k) and an unnamed chunk
C13_Witness ==
    /\ RunDone("esm-dce")
    /\ Len(SingleDeps) = 3
    /\ declarations[SingleDeps[1]].startIndex > declarations[SingleDeps[2]].startIndex
    /\ Len(unnamed) = 1


\* the text of a node with `shared.` put before every identifier whose text
\* is in the Set `shared`
RECURSIVE QualifiedText(_)
RECURSIVE QualifiedTextOfAll(_)
QualifiedTextOfAll(nodes) ==
    IF nodes = << >> THEN ""
    ELSE IF Len(nodes) = 1 THEN QualifiedText(nodes[1])
         ELSE QualifiedText(nodes[1]) \o " " \o QualifiedTextOfAll(Tail(nodes))
QualifiedText(node) ==
    IF node.children # << >> THEN QualifiedTextOfAll(node.children)
    ELSE IF node.type = "identifier" /\ node.text \in shared
         THEN "shared." \o node.text
         ELSE node.text

\* the statements of the private text of the k-th program: its chunks in
\* source order and its export statements
PrivateStatements(k) ==
    LET chunks == dependenciesToChunks(
                      needsInOrder(programs[k], programNodes, declarations),
                      declarations, << >>).value
    IN  [ i \in 1..Len(chunks) |-> ChunkStatement(chunks[i], source) ]

\* the assembled private text of the k-th program (render = TextOf), and the
\* same text with the qualifying prefixes (render = QualifiedText):
\* depsToString(program.needs) + exportsToString([program])
PrivateText(k, render(_)) ==
    JoinLines([ i \in 1..Len(PrivateStatements(k)) |-> render(PrivateStatements(k)[i]) ])
        \o "\n"
        \o JoinLines([ i \in 1..Len(exportsToStatements(<< programNodes[k] >>)) |->
                         render(exportsToStatements(<< programNodes[k] >>)[i]) ])

\* the module of the k-th program was written
ProgramWritten(k) ==
    /\ mode = "split" /\ pc \in { "program", "done" } /\ effects.writeFiles
    /\ k \in 1..Len(programs) /\ k < index

ProgramFile(k) == basename \o "." \o programs[k].name \o ".mjs"
ImportLine == "import * as shared from './" \o sharedFilename \o "';\n"

\* C14 as stated: the text of a program module is the import line and the
\* assembled private text of the program with `shared.` immediately before
\* every identifier whose text is in the global shared set, and nothing
\* else: without the prefixes and the import line it is the private text
\* unchanged.
C14_ModuleIsPrivateTextWithPrefixes ==
    \A k \in 1..Len(programs) :
        ProgramWritten(k) =>
            /\ PrivateText(k, TextOf) = depsToString(
                   needsInOrder(programs[k], programNodes, declarations),
                   << >>, declarations, esm).value
                       \o exportsToString(<< programNodes[k] >>)
            /\ files[ProgramFile(k)] = ImportLine \o PrivateText(k, QualifiedText)

\* C14, amended: the text of a program module is the import line, the
\* assembled private text with `shared.` immediately before every identifier
\* whose text is in the global shared set, and one line terminator at the end.
C14_ModuleIsPrivateTextWithPrefixesAndNewline ==
    \A k \in 1..Len(programs) :
        ProgramWritten(k) =>
            /\ PrivateText(k, TextOf) = depsToString(
                   needsInOrder(programs[k], programNodes, declarations),
                   << >>, declarations, esm).value
                       \o exportsToString(<< programNodes[k] >>)
            /\ files[ProgramFile(k)] = ImportLine \o PrivateText(k, QualifiedText) \o "\n"

\* the module of One was written: its private function u refers to the
\* shared h, and its entry point to the private k
C14_Witness ==
    /\ ProgramWritten(1) /\ programs[1].name = "One"
    /\ "h" \in shared /\ programs[1].needs = { "u", "k" }


\* the names a top-level statement declares
DeclaredNames(stmt) ==
    IF stmt.type = "function_declaration" THEN { stmt.children[2].text }
    ELSE IF stmt.type = "variable_declaration" THEN VarNamesIn(stmt)
    ELSE {}

\* the module of the k-th program has been assembled
ProgramAssembled(k) ==
    /\ mode = "split" /\ pc \in { "program", "done" }
    /\ k \in 1..Len(programs) /\ k < index

\* C15: in split mode no chunk copied into a program's private module
\* declares a name that is in the global shared set, whatever the shape of
\* the declaration, statements that declare several names included.
C15_SharedNamesDeclaredInSharedModuleOnly ==
    \A k \in 1..Len(programs) :
        ProgramAssembled(k) =>
            \A i \in 1..Len(PrivateStatements(k)) :
                DeclaredNames(PrivateStatements(k)[i]) \cap shared = {}


\* the declared names reachable from the names of S through needs, S included
RECURSIVE DeclaredClosure(_)
DeclaredClosure(S) ==
    LET T == S \cup UNION { Elements(declarations[n].needs) : n \in S }
        known == T \cap DOMAIN declarations
    IN  IF known = S THEN S ELSE DeclaredClosure(known)

\* the names whose declaring statement is among the chunks fetched for deps
EmittedNames(deps) ==
    { n \in DOMAIN declarations :
          \E k \in 1..Len(deps) :
              declarations[deps[k]].startIndex = declarations[n].startIndex }

\* C16: the dependencies of unnamed top-level code are emitted where the code
\* is: every declared name in the transitive closure of the needs of an
\* unnamed chunk has its declaration in the reduced module (single-program
\* mode) or in the shared module (split mode), whether or not a program
\* reaches the name.
C16_UnnamedNeedsAreEmittedWithTheChunk ==
    /\ RunDone("esm-dce") =>
           \A k \in 1..Len(unnamed) :
               DeclaredClosure(Elements(unnamed[k].needs) \cap DOMAIN declarations)
                   \subseteq EmittedNames(SingleDeps)
    /\ RunDone("split-programs-one-shared") =>
           \A k \in 1..Len(unnamed) :
               DeclaredClosure(Elements(unnamed[k].needs) \cap DOMAIN declarations)
                   \subseteq EmittedNames(sharedOrder)


\* the positions of the line terminators of a text
LineEnds(text) == { i \in 1..Len(text) : SubSeq(text, i, i) = "\n" }
\* the least number of a set
Least(S) == CHOOSE n \in S : \A m \in S : n <= m
\* the lines of a text that start at the positions `starts`, in order
RECURSIVE LinesAt(_, _, _)
LinesAt(text, starts, ends) ==
    IF starts = {} THEN << >>
    ELSE << SubSeq(text, Least(starts),
                   Least({ i \in ends : i >= Least(starts) } \cup { Len(text) + 1 }) - 1) >>
         \o LinesAt(text, starts \ { Least(starts) }, ends)
\* the lines of a text
Lines(text) ==
    LinesAt(text,
            { s \in { 1 } \cup { i + 1 : i \in LineEnds(text) } : s <= Len(text) },
            LineEnds(text))

StartsWith(text, prefix) ==
    Len(text) >= Len(prefix) /\ SubSeq(text, 1, Len(prefix)) = prefix

\* the lines of a module that export or import something
ExportLines(text) == SelectSeq(Lines(text), LAMBDA line : StartsWith(line, "export"))
ImportLines(text) == SelectSeq(Lines(text), LAMBDA line : StartsWith(line, "import"))

\* the names the report gives for the modules of the run
ReportedFiles ==
    IF RunDone("esm-dce") THEN << returned.output.file >>
    ELSE IF RunDone("split-programs-one-shared")
    THEN << returned.output.shared.file >>
         \o [ k \in 1..Len(returned.output.programs) |-> returned.output.programs[k].file ]
    ELSE << >>

\* C17: the run dispatches on the number N of programs of the entry table.
\* N = 0: an error result and no module.  N = 1: the planner is skipped and
\* one module is produced, without an import of a shared module.  N >= 2:
\* one shared module that exports every name of the final shared set and N
\* program modules, each beginning with the import of the shared module
\* under the alias `shared` and exporting its own program only.
C17_DispatchOnNumberOfPrograms ==
    mode = "split" =>
        /\ Len(bundle.table) = 0 =>
               /\ files = << >>
               /\ pc \in { "prepare", "done" }
               /\ pc = "done" => RunDone("error")
        /\ Len(bundle.table) = 1 =>
               /\ pc \in { "prepare", "done" }
               /\ programs = << >> /\ shared = {} /\ outputs.programs = << >>
               /\ pc = "done" => (RunDone("esm-dce") \/ RunDone("error"))
               /\ RunDone("error") => files = << >>
               /\ RunDone("esm-dce") =>
                      /\ ReportedFiles = << filePath \o ".dce.mjs" >>
                      /\ effects.writeFiles =>
                             /\ DOMAIN files = { filePath \o ".dce.mjs" }
                             /\ ImportLines(files[filePath \o ".dce.mjs"]) = << >>
        /\ Len(bundle.table) >= 2 =>
               /\ pc = "done" => returned.tag = "throw"
                                     \/ RunDone("split-programs-one-shared")
               /\ RunDone("split-programs-one-shared") =>
                      /\ ReportedFiles =
                             << sharedFilename >>
                             \o [ k \in 1..Len(bundle.table) |->
                                    basename \o "." \o bundle.table[k].name \o ".mjs" ]
                      /\ effects.writeFiles =>
                             /\ DOMAIN files = Elements(ReportedFiles)
                             /\ Cardinality(DOMAIN files) = Len(bundle.table) + 1
                             /\ \E order \in ListOrders(sharedOrder) :
                                    /\ Elements(order) = shared
                                    /\ ExportLines(files[sharedFilename])
                                           = << "export { " \o JoinNames(order) \o " };" >>
                             /\ \A k \in 1..Len(bundle.table) :
                                    /\ StartsWith(files[ReportedFiles[k + 1]], ImportLine)
                                    /\ Len(ImportLines(files[ReportedFiles[k + 1]])) = 1
                                    /\ ExportLines(files[ReportedFiles[k + 1]]) =
                                           << QualifiedText(ProgramExport(bundle.table[k])),
                                              "export const Elm = { "
                                                  \o bundle.table[k].name \o " } ;",
                                              "export default Elm ;" >>

\* a run on a table of three programs has written its four modules, with
\* names promoted to the shared module
C17_Witness ==
    /\ RunDone("split-programs-one-shared")
    /\ Len(bundle.table) = 3
    /\ effects.writeFiles
    /\ Cardinality(DOMAIN files) = 4
    /\ shared # {}


\* the names the statements of the bundle declare (the export statements
\* convert appends declare the entry points, Elm and the default export)
BundleNames ==
    { n \in DOMAIN declarations :
          \E k \in 1..Len(bundle.body) :
              source[k].startIndex = declarations[n].startIndex }

\* the text of the declaration of a name
DeclarationText(n) == SubSeq(esm, declarations[n].startIndex + 1, declarations[n].endIndex)

\* C18: in single-program mode the reduced module contains the text of a
\* top-level named declaration of the bundle if and only if its name is
\* reachable through needs from the entry point of the program.
C18_ReducedModuleHoldsExactlyTheReachable ==
    (RunDone("esm-dce") /\ effects.writeFiles) =>
        \A n \in BundleNames :
            (\E k \in 1..Len(Lines(files[filePath \o ".dce.mjs"])) :
                 Lines(files[filePath \o ".dce.mjs"])[k] = DeclarationText(n))
            <=> n \in DeclaredClosure({ programNodes[1].name })


\* what writeFileAndPrintSizes resolves to when it is allowed to write
Written(file, content) ==
    writeFileAndPrintSizes(<< >>, file, content, [ writeFiles |-> TRUE ]).value

\* the report of the run on the same bundle (and the same order of the Set
\* `shared`) with effects.writeFiles = true
ReportWithWriteFiles ==
    IF Len(bundle.table) < 1
    THEN [ tag |-> "result", result |-> "error", input |-> InputFile(bundle),
           message |-> "Could not extract a main program" ]
    ELSE IF Len(bundle.table) = 1
    THEN IF convertAndRemoveDeadCode(bundle).ok
         THEN [ tag |-> "result", result |-> "esm-dce", input |-> InputFile(bundle),
                programs |-> programNodeNames(bundle.table),
                output |-> Written(filePath \o ".dce.mjs",
                               "// Converted from " \o filePath \o "\n"
                                   \o convertAndRemoveDeadCode(bundle).value) ]
         ELSE [ tag |-> "result", result |-> "error", input |-> InputFile(bundle),
                message |-> convertAndRemoveDeadCode(bundle).error ]
    ELSE [ tag |-> "result", result |-> "split-programs-one-shared",
           input |-> InputFile(bundle),
           programs |-> programNodeNames(bundle.table),
           output |->
               [ shared |-> Written(sharedFilename,
                                sharedCodeOf(sharedOrder, unnamed, declarations,
                                             esm).value),
                 programs |->
                     [ k \in 1..Len(bundle.table) |->
                         Written(basename \o "." \o bundle.table[k].name \o ".mjs",
                                 programCode(bundle.table[k],
                                     needsInOrder(programs[k], programNodes,
                                                  declarations),
                                     shared, declarations, source, esm).value) ] ] ]

\* C19: with effects.writeFiles = false no file is written on any path, and
\* the report the run returns (result tag, program names, output file names
\* and sizes) is the one the run with writeFiles = true returns for the same
\* input.
C19_DryRunWritesNothingAndReportsTheSame ==
    (mode = "split" /\ ~effects.writeFiles) =>
        /\ files = << >>
        /\ (pc = "done" /\ returned.tag = "result") => returned = ReportWithWriteFiles

\* a dry run on a table of two programs has returned its report, with a
\* shared and two program modules in it, and no file exists
C19_Witness ==
    /\ RunDone("split-programs-one-shared")
    /\ ~effects.writeFiles
    /\ Len(returned.output.programs) = 2
    /\ returned.output.shared.sizes.raw > 0
    /\ files = << >>

(***************************************************************************)
(* Claims about statements that bind several names (SpecGraph)             *)
(***************************************************************************)
\* the names node refers to that are not in `bound`, one per reference, in
\* source order
RECURSIVE FreeRefSeq(_, _)
RECURSIVE FreeRefSeqOfAll(_, _)
FreeRefSeq(node, bound) ==
    CASE node.type \in { "identifier", "shorthand_property_identifier" } ->
            IF node.text \in bound THEN << >> ELSE << node.text >>
      [] node.type = "function" ->
            FreeRefSeq(node.children[3],
                       bound \cup formalParameterNames(node.children[2])
                             \cup HoistedIn(node.children[3]))
      [] OTHER -> FreeRefSeqOfAll(node.children, bound)
FreeRefSeqOfAll(nodes, bound) ==
    IF nodes = << >> THEN << >>
    ELSE FreeRefSeq(Head(nodes), bound) \o FreeRefSeqOfAll(Tail(nodes), bound)

\* the name/initializer pairs of a binding statement
PairsOf(stmt) == SelectSeq(stmt.children, LAMBDA c : c.type = "variable_declarator")

\* the free references of the initializers of pairs, in source order, when
\* the names in `bound` were bound by the pairs before them
RECURSIVE PairNeeds(_, _)
PairNeeds(pairs, bound) ==
    IF pairs = << >> THEN << >>
    ELSE LET seen == bound \cup { Head(pairs).children[1].text }
         IN  (IF Len(Head(pairs).children) >= 3
              THEN FreeRefSeq(Head(pairs).children[3], seen \cup AmbientGlobals)
              ELSE << >>)
             \o PairNeeds(Tail(pairs), seen)

\* the top-level binding statements of the source with several pairs
ManyPairs == { k \in 1..Len(source) : /\ source[k].type = "variable_declaration"
                                      /\ Len(PairsOf(source[k])) >= 2 }

\* C21: for a top-level binding statement with several name/initializer
\* pairs the map holds one Declaration per bound name (unless a later
\* statement binds the name again); each has the byte range of the whole
\* statement and the same needs: the free references of all initializers in
\* source order, where a name bound by an earlier pair is not free in a
\* later initializer.
C21_PairsShareRangeAndNeeds ==
    GraphDone =>
        \A k \in ManyPairs :
            \A i \in 1..Len(PairsOf(source[k])) :
                LET n == PairsOf(source[k])[i].children[1].text
                IN  (\A later \in (k + 1)..Len(source) : n \notin DeclaredNames(source[later]))
                    => /\ n \in DOMAIN returned.declarations
                       /\ returned.declarations[n] =
                              [ name |-> n,
                                needs |-> PairNeeds(PairsOf(source[k]), {}),
                                startIndex |-> source[k].startIndex,
                                endIndex |-> source[k].endIndex ]

\* the build of a source that ends with `var m = F(n), n = m, o = g;`
C21_Witness ==
    /\ GraphDone
    /\ Len(source) \in ManyPairs
    /\ Len(PairsOf(source[Len(source)])) = 3
    /\ source[Len(source)].startIndex > 0
    /\ { "m", "n", "o" } \subseteq DOMAIN returned.declarations
    /\ returned.declarations["n"].needs = << "F", "n", "g" >>

(***************************************************************************)
(* Claims about statements that bind no name                               *)
(***************************************************************************)
\* the top-level statements that have an effect and bind no name
SideEffectTypes == { "expression_statement", "try_statement" }

\* C22: every top-level statement that has side effects but binds no name
\* is recorded in `unnamed`, in source order, with its free references (so
\* that it is emitted with every output: unnamed is handed whole to the
\* reduced module and to the shared module).
C22_SideEffectStatementsAreRecorded ==
    GraphDone =>
        /\ \A k \in 1..Len(source) :
               source[k].type \in SideEffectTypes =>
                   \E j \in 1..Len(returned.unnamed) :
                       /\ returned.unnamed[j].startIndex = source[k].startIndex
                       /\ returned.unnamed[j].endIndex = source[k].endIndex
                       /\ Range(returned.unnamed[j].needs)
                              = FreeNames(source[k]) \ AmbientGlobals
        /\ \A i, j \in 1..Len(returned.unnamed) :
               i < j => returned.unnamed[i].startIndex < returned.unnamed[j].startIndex

(***************************************************************************)
(* Claims about the exports convert appends (SpecSplit)                    *)
(***************************************************************************)
\* the map getDeclarationsAndDependencies builds from the ESM text of convert
EsmMap == getDeclarationsAndDependencies(parseEsm(bundle))

\* C23: every program convert returns has a Declaration under its own name
\* in the map built from convert's ESM text, and its needs are the free
\* references of its init expression; the named export of `Elm` gives one
\* declaration `Elm` and the default export one declaration `defaultExport`;
\* so getDependenciesOf finds declarations.get(seed) for a program name.
C23_ProgramsAreDeclaredByTheirExports ==
    (mode = "split" /\ pc = "done" /\ Len(bundle.table) >= 1 /\ ~EsmMap.thrown) =>
        /\ \A k \in 1..Len(bundle.table) :
               LET program == convert(bundle).programNodes[k]
               IN  /\ program.name \in DOMAIN EsmMap.declarations
                   /\ EsmMap.declarations[program.name].name = program.name
                   /\ EsmMap.declarations[program.name].needs
                          = FreeRefSeq(program.init, AmbientGlobals)
        /\ "Elm" \in DOMAIN EsmMap.declarations
        /\ EsmMap.declarations["Elm"].needs = programNodeNames(bundle.table)
        /\ "defaultExport" \in DOMAIN EsmMap.declarations
        /\ EsmMap.declarations["defaultExport"].needs = << "Elm" >>

\* a run on a table of two programs whose inits refer to names of the bundle
C23_Witness ==
    /\ RunDone("split-programs-one-shared")
    /\ Len(bundle.table) = 2
    /\ \A k \in 1..2 : /\ programNodes[k].name \in DOMAIN declarations
                       /\ Len(declarations[programNodes[k].name].needs) = 2
    /\ "defaultExport" \in DOMAIN declarations

(***************************************************************************)
(* Claims about the writes of a split run (SpecWrites)                     *)
(***************************************************************************)
\* the text splitWith1stMode assembles for the module of programs[k]
ProgramText(k) ==
    programCode(bundle.table[k], needsInOrder(programs[k], programNodes, declarations),
                shared, declarations, source, esm).value

\* C24: the write of the shared module and the writes of the N program
\* modules are started one after the other without waiting (after round k
\* of the loop k + 1 writes were started, whatever stage they are in, and a
\* write that has not completed has left no file), the call returns only
\* when all N+1 calls are resolved, and whatever the order in which the
\* writes completed, every file then holds the text assembled for it and
\* output.programs lists the program files in the order of the input
\* program list.
C24_WritesAreIndependentAndAllAwaited ==
    /\ (mode = "writes" /\ pc = "program") =>
           /\ Len(writes) = index
           /\ \A k \in 1..Len(writes) :
                  writes[k].stage = "writeFile" => writes[k].file \notin DOMAIN files
    /\ (mode = "writes" /\ pc = "done" /\ returned.tag = "result") =>
           /\ Len(writes) = Len(bundle.table) + 1
           /\ \A k \in 1..Len(writes) : writes[k].stage = "resolved"
           /\ effects.writeFiles =>
                  /\ DOMAIN files = { sharedFilename }
                                    \cup { ProgramFile(k) : k \in 1..Len(bundle.table) }
                  /\ files[sharedFilename]
                         = sharedCodeOf(sharedOrder, unnamed, declarations, esm).value
                  /\ \A k \in 1..Len(bundle.table) : files[ProgramFile(k)] = ProgramText(k)
           /\ Len(returned.output.programs) = Len(bundle.table)
           /\ \A k \in 1..Len(bundle.table) :
                  /\ programs[k].name = bundle.table[k].name
                  /\ returned.output.programs[k].file = ProgramFile(k)

\* all three writes of a run on two programs were started; the last one has
\* completed and its promise is resolved while the write of the shared
\* module, started first, is still pending
C24_Witness ==
    /\ mode = "writes" /\ pc = "program"
    /\ Len(writes) = 3
    /\ writes[1].stage = "writeFile"
    /\ writes[2].stage = "writeFile"
    /\ writes[3].stage = "resolved"
    /\ DOMAIN files = { ProgramFile(2) }

(***************************************************************************)
(* Further claims about the split planner (SpecPlan)                       *)
(***************************************************************************)
\* C25: when the planner returns, the private needs of any two distinct
\* programs are disjoint; and when the closures the programs came with are
\* pairwise disjoint, the global shared set is what it was at the call.
C25_PrivateNeedsAreDisjoint ==
    PlanDone =>
        /\ \A i \in PlanIdx : \A j \in PlanIdx \ {i} :
               programs[i].needs \cap programs[j].needs = {}
        /\ (\A i \in PlanIdx : \A j \in PlanIdx \ {i} : N0(i) \cap N0(j) = {})
               => shared = planInput.shared

(***************************************************************************)
(* Further claims about whole runs (SpecSplit)                             *)
(***************************************************************************)
\* C26: the shared module is closed under dependencies: in split mode every
\* name in the needs of a declaration of the final global shared set, and
\* of an unnamed chunk, is itself in the final global shared set.
C26_SharedModuleIsClosedUnderNeeds ==
    RunDone("split-programs-one-shared") =>
        /\ \A n \in shared : Elements(declarations[n].needs) \subseteq shared
        /\ \A k \in 1..Len(unnamed) : Elements(unnamed[k].needs) \subseteq shared

(***************************************************************************)
(* Termination of the reachability resolver (SpecDepsFair)                 *)
(***************************************************************************)
\* an iteration of the loop expands a declaration: result.add(direct.name);
\* queue.push(...direct.needs)
Expands == mode = "deps" /\ pc = "loop" /\ result' # result

\* C27: getDependenciesOf terminates on every map, with self-references,
\* cycles and duplicates in the needs lists: the call returns or throws, and
\* until then a declaration is expanded only when it is not in the result
\* yet, where it stays, so each declaration is expanded at most once.
C27_ResolverTerminates ==
    /\ <>(mode = "deps" /\ pc = "done")
    /\ [][ /\ Expands => /\ Head(queue) \notin result
                         /\ result' = result \cup { Head(queue) }
           /\ (mode = "deps" /\ pc = "loop") => result \subseteq result' ]_vars

\* the call has returned on a map where the seed needs itself, two names
\* need each other, and a needs list names the same declaration twice
C27_Witness ==
    /\ DepsDone
    /\ returned.tag = "set"
    /\ identifier \in NeedsEdges(identifier)
    /\ \E n \in DOMAIN declarations \ { identifier } :
          \E m \in DOMAIN declarations \ { identifier, n } :
              /\ n \in NeedsEdges(identifier)
              /\ m \in NeedsEdges(n) /\ n \in NeedsEdges(m)
              /\ declarations[m].needs = << n, n >>

\* C28: a call of splitPerProgramWithSingleSharedData on a readable file
\* never rejects: it returns a result, and when something failed (the entry
\* table, the graph, a closure, the plan, the assembly) the result has the
\* tag `error` and a message and no file was written, with one program and
\* with several alike.
C28_FailuresAreReturnedAsErrors ==
    (mode = "split" /\ pc = "done") =>
        /\ returned.tag = "result"
        /\ returned.result \in { "error", "esm-dce", "split-programs-one-shared" }
        /\ returned.result = "error" => /\ "message" \in DOMAIN returned
                                        /\ files = << >>

\* C29: no source range is emitted twice into one module: the chunk list
\* dependenciesToChunks returns for a name set holds each range (startIndex,
\* endIndex) at most once, also when several names of the set were declared
\* by one statement.
C29_NoRangeIsEmittedTwice ==
    \A call \in AssemblerCalls :
        LET sorted == dependenciesToChunks(call.deps, declarations, call.chunks).value
        IN  \A i, j \in 1..Len(sorted) :
                ( /\ sorted[i].startIndex = sorted[j].startIndex
                  /\ sorted[i].endIndex = sorted[j].endIndex ) => i = j

\* the text of node with `shared.` before the identifiers whose text is in
\* the global shared set and that are not bound inside the function they
\* stand in (by a parameter, a local variable or function, a catch
\* parameter); `bound` holds the names bound around node
RECURSIVE FreeQualifiedText(_, _)
RECURSIVE FreeQualifiedTextOfAll(_, _)
FreeQualifiedTextOfAll(nodes, bound) ==
    IF nodes = << >> THEN ""
    ELSE IF Len(nodes) = 1 THEN FreeQualifiedText(nodes[1], bound)
         ELSE FreeQualifiedText(nodes[1], bound) \o " "
                  \o FreeQualifiedTextOfAll(Tail(nodes), bound)
FreeQualifiedText(node, bound) ==
    CASE node.children = << >> ->
            IF node.type = "identifier" /\ node.text \in shared \ bound
            THEN "shared." \o node.text
            ELSE node.text
      [] node.type = "function_declaration" ->
            FreeQualifiedTextOfAll(SubSeq(node.children, 1, 2), bound) \o " "
                \o FreeQualifiedTextOfAll(SubSeq(node.children, 3, 4),
                       bound \cup formalParameterNames(node.children[3])
                             \cup HoistedIn(node.children[4]))
      [] node.type = "function" ->
            FreeQualifiedTextOfAll(SubSeq(node.children, 1, 1), bound) \o " "
                \o FreeQualifiedTextOfAll(SubSeq(node.children, 2, 3),
                       bound \cup formalParameterNames(node.children[2])
                             \cup HoistedIn(node.children[3]))
      [] node.type = "catch_clause" ->
            FreeQualifiedTextOfAll(node.children, bound \cup { node.children[3].text })
      [] OTHER -> FreeQualifiedTextOfAll(node.children, bound)

FreeQualifiedStatement(stmt) == FreeQualifiedText(stmt, {})

\* C30: the rewriting of a program module qualifies only free references:
\* an identifier that is bound inside the program's private code, by a
\* function parameter or a local variable, is left as it is even when its
\* text is the name of a shared declaration.
C30_LocallyBoundNamesAreNotQualified ==
    \A k \in 1..Len(programs) :
        ProgramWritten(k) =>
            files[ProgramFile(k)]
                = ImportLine \o PrivateText(k, FreeQualifiedStatement) \o "\n"

====
